---- MODULE Spec2Model ----
(***************************************************************************)
(* A model of python-fitness-trainer/exercise_engine.py: the ExerciseEngine *)
(* object (its repetition state machine, form scoring, perfect-form gate   *)
(* and feedback generation), driven by process() and reset() calls (Spec); *)
(* the engine behind app.py's /set_exercise route (SpecApp); and the       *)
(* constructor on arbitrary exercise files (SpecConstruct).                *)
(*                                                                         *)
(* Angles are degrees on an integer grid.  Text is modelled as sequences:  *)
(* an exercise name is a sequence of characters, a feedback condition is a *)
(* sequence of tokens, so that the substring tests and the string          *)
(* substitution of the source are computed, not assumed.                   *)
(***************************************************************************)
EXTENDS Integers, Sequences, FiniteSets, TLC

VARIABLES
    engine,              \* app.py: the object the global exercise_engine is bound to
    exercise_config,     \* self.exercise_config: [name, landmarks, parameters, feedback]
    voice_attached,      \* whether self.voice_feedback is not None
    perfect_form_threshold, \* self.perfect_form_threshold
    landmark1,           \* self.landmark1
    landmark2,           \* self.landmark2
    landmark3,           \* self.landmark3
    start_threshold,     \* self.start_threshold
    down_threshold,      \* self.down_threshold
    up_threshold,        \* self.up_threshold
    feedback_threshold,  \* self.feedback_threshold
    perfect_ranges,      \* self.perfect_ranges
    current_stage,       \* self.current_stage
    reps,                \* self.reps
    feedback,            \* self.feedback
    voice_message,       \* self.voice_message
    form_score,          \* self.form_score
    op,                  \* the last operation called: "init", "process", "reset", ...
    landmarks,           \* the landmarks argument of the last process() call
    frame_angle,         \* process(): local angle of the last call, NoAngle if none
    previous_stage,      \* process(): local previous_stage (phase before the call)
    rep_completed,       \* process(): local rep_completed of the last call
    result,              \* the tuple returned by the last process() call
    raised,              \* the exception the last call raised to its caller, "" if none
    spoken,              \* the speak() calls made on the voice channel by the last call
    run_incs,            \* increments of reps in the current run of identical frames
    below_down_seen,     \* a frame with angle < down_threshold was processed since
    since_boundary,      \* "waiting" from a boundary frame of process() until a frame
                         \* enters the critical phase again ("reentered"); "none"
                         \* before the engine's first boundary
                         \* construction or the last reset()
    current_exercise_name,  \* app.py global current_exercise_name
    current_reps,           \* app.py global current_reps
    app_current_stage,      \* app.py global current_stage
    current_feedback,       \* app.py global current_feedback
    current_voice_message,  \* app.py global current_voice_message
    current_form_score,     \* app.py global current_form_score
    response,               \* the HTTP status of the last set_exercise request, 0 if none
    angle_args,             \* the arguments <<point1, point2, point3>> of a calculate_angle call
    angle_returned,         \* what that call returned or raised, NoReturn before it
    pc,                     \* where each request thread of the Flask server stands
    frame_local,            \* each thread's locals of its generate_frames / process() call
    feedback_queue,         \* VoiceFeedback.feedback_queue: (text, priority, timestamp)
    is_speaking,            \* VoiceFeedback.is_speaking
    last_feedback_time,     \* VoiceFeedback.last_feedback_time
    now,                    \* time.time(), in seconds since VoiceFeedback was built
    worker,                 \* where _voice_worker stands: "get" or "say"
    saying,                 \* the message the worker has taken to speak, NoMessage if none
    speak_call,             \* the last speak() call: its text, priority and time
    last_plain_start,       \* when the worker last began a non-priority message, Never if not
    last_finished           \* when the speech engine last finished a message, Never if not

\* The attributes the constructor derives from the exercise definition
config_vars == <<exercise_config, voice_attached, perfect_form_threshold,
                 landmark1, landmark2, landmark3, start_threshold, down_threshold,
                 up_threshold, feedback_threshold, perfect_ranges>>

\* The engine's mutable attributes
engine_vars == <<current_stage, reps, feedback, voice_message, form_score>>

\* The globals of app.py
app_vars == <<current_exercise_name, current_reps, app_current_stage,
              current_feedback, current_voice_message, current_form_score,
              response>>

\* A calculate_angle call on its own
calc_vars == <<angle_args, angle_returned>>

\* The request threads of app.run(threaded=True)
thread_vars == <<pc, frame_local>>

\* The VoiceFeedback object and its worker thread
voice_vars == <<feedback_queue, is_speaking, last_feedback_time, now, worker, saying,
                speak_call, last_plain_start, last_finished>>

vars == <<engine, config_vars, engine_vars, app_vars, calc_vars, thread_vars,
          voice_vars, op,
          landmarks, frame_angle, previous_stage, rep_completed, result, raised,
          spoken, run_incs, below_down_seen, since_boundary>>

-----------------------------------------------------------------------------
(* Bounds *)

\* process() is not called any more once reps has reached MaxReps
MaxReps == 2

\* set_exercise is not requested any more once MaxEngines engines were constructed
MaxEngines == 2

\* The largest angle calculate_angle returns: degrees(acos(-1))
MaxAngle == 180

\* The angles of the frames fed to the engine: every threshold used below and
\* every edge of a scoring band, with a neighbour on each side of it.
AngleSamples ==
    {0, 19, 20, 25, 30, 39, 40, 45, 46, 50, 51, 55, 56, 60, 65, 69, 70, 75, 80,
     81, 89, 90, 91, 95, 96, 100, 101, 110, 111, 120, 160, 161, 170, MaxAngle}

-----------------------------------------------------------------------------
(* Text *)

\* str.lower() on the letters the names below use
Lower(ch) ==
    CASE ch = "S" -> "s"
      [] ch = "P" -> "p"
      [] ch = "B" -> "b"
      [] ch = "C" -> "c"
      [] ch = "L" -> "l"
      [] OTHER -> ch

LowerStr(s) == [i \in 1..Len(s) |-> Lower(s[i])]

\* Python's `sub in s` on strings
Contains(s, sub) ==
    \E i \in 1..(Len(s) - Len(sub) + 1) : SubSeq(s, i, i + Len(sub) - 1) = sub

STR_squat == <<"s", "q", "u", "a", "t">>
STR_push  == <<"p", "u", "s", "h">>
STR_bicep == <<"b", "i", "c", "e", "p">>

\* The exercise names; a name is held as a string and read character by
\* character through Chars
NAME_Squats     == "Squats"
NAME_Pushups    == "Push-ups"
NAME_BicepCurls == "Bicep Curls"
NAME_Lunges     == "Lunges"
NAME_BicepSquats == "Bicep Squats"

Chars(name) ==
    CASE name = NAME_Squats -> <<"S", "q", "u", "a", "t", "s">>
      [] name = NAME_Pushups -> <<"P", "u", "s", "h", "-", "u", "p", "s">>
      [] name = NAME_BicepCurls -> <<"B", "i", "c", "e", "p", " ", "C", "u", "r", "l", "s">>
      [] name = NAME_Lunges -> <<"L", "u", "n", "g", "e", "s">>
      [] name = NAME_BicepSquats ->
            <<"B", "i", "c", "e", "p", " ", "S", "q", "u", "a", "t", "s">>

ExerciseNames == {NAME_Squats, NAME_Pushups, NAME_BicepCurls, NAME_Lunges}

\* With a name that holds the words of two exercises
AllNames == ExerciseNames \cup {NAME_BicepSquats}

-----------------------------------------------------------------------------
(* Feedback conditions: a condition string is a sequence of tokens (the     *)
(* pieces between its spaces).  A token is a bare word or operator, a       *)
(* number, or a double-quoted string.                                       *)

Word(w) == [t |-> "word", w |-> w, v |-> 0]
Num(v)  == [t |-> "num", w |-> "", v |-> v]
Quoted(w) == [t |-> "str", w |-> w, v |-> 0]

\* str.replace(old, new) for a one-word `old`
Replace(cond, old, new) ==
    [i \in 1..Len(cond) |-> IF cond[i] = Word(old) THEN new ELSE cond[i]]

\* `'>' in condition` and the like, for a one-token needle
HasToken(cond, w) == \E i \in 1..Len(cond) : cond[i] = Word(w)

\* the index at which ' and state ==' starts, 0 when it does not occur
AndStateAt(cond) ==
    LET at == {i \in 1..(Len(cond) - 2) :
                 /\ cond[i] = Word("and")
                 /\ cond[i + 1] = Word("state")
                 /\ cond[i + 2] = Word("==")}
    IN  IF at = {} THEN 0 ELSE CHOOSE i \in at : \A j \in at : i <= j

\* text.split(w)[-1]: what follows the last occurrence of the token
AfterLast(cond, w) ==
    LET last == CHOOSE i \in 1..Len(cond) :
                    /\ cond[i] = Word(w)
                    /\ \A j \in (i + 1)..Len(cond) : cond[j] # Word(w)
    IN  SubSeq(cond, last + 1, Len(cond))

\* float(text.strip()): defined on a single number, a ValueError otherwise
IsFloat(text) == Len(text) = 1 /\ text[1].t = "num"
Float(text) == text[1].v

\* One branch of evaluate_condition: the comparison of angle with the number
\* after the last '>' or '<'; the bare except turns a ValueError into False.
Compare(text, angle) ==
    IF HasToken(text, ">")
    THEN LET threshold == AfterLast(text, ">")
         IN  IsFloat(threshold) /\ angle > Float(threshold)
    ELSE IF HasToken(text, "<")
    THEN LET threshold == AfterLast(text, "<")
         IN  IsFloat(threshold) /\ angle < Float(threshold)
    ELSE FALSE

evaluate_condition(condition, angle, stage) ==
    LET c1 == Replace(condition, "angle", Num(angle))
        c2 == Replace(c1, "state", Quoted(stage))
        at == AndStateAt(c2)
    IN  IF at > 0
        THEN LET angle_condition == SubSeq(c2, 1, at - 1)
                 rest == SubSeq(c2, at + 3, Len(c2))
                 angle_ok ==
                     IF HasToken(angle_condition, ">") \/ HasToken(angle_condition, "<")
                     THEN Compare(angle_condition, angle)
                     ELSE TRUE
             IN  /\ Len(rest) = 1
                 /\ angle_ok
                 /\ stage = rest[1].w
        ELSE Compare(c2, angle)

\* The condition strings of the feedback rules; a condition is held as a
\* string and read token by token through Tokens
COND_gt_160     == "angle > 160"
COND_lt_70      == "angle < 70"
COND_lt_30      == "angle < 30"
COND_gt_160_UP  == "angle > 160 and state == 'UP'"
COND_lt_90_DOWN == "angle < 90 and state == 'DOWN'"

Tokens(condition) ==
    CASE condition = COND_gt_160 -> <<Word("angle"), Word(">"), Num(160)>>
      [] condition = COND_lt_70 -> <<Word("angle"), Word("<"), Num(70)>>
      [] condition = COND_lt_30 -> <<Word("angle"), Word("<"), Num(30)>>
      [] condition = COND_gt_160_UP ->
           <<Word("angle"), Word(">"), Num(160), Word("and"),
             Word("state"), Word("=="), Quoted("UP")>>
      [] condition = COND_lt_90_DOWN ->
           <<Word("angle"), Word("<"), Num(90), Word("and"),
             Word("state"), Word("=="), Quoted("DOWN")>>

Conditions == {COND_gt_160, COND_lt_70, COND_lt_30, COND_gt_160_UP, COND_lt_90_DOWN}

\* evaluate_condition, tabulated once for the conditions, angles and phases used
condition_holds[c \in Conditions, a \in AngleSamples, s \in {"START", "DOWN", "UP"}] ==
    evaluate_condition(Tokens(c), a, s)

NoVoice == "<absent>"

Rule(condition, message, voice) ==
    [condition |-> condition, message |-> message, voice |-> voice]

\* The `feedback` list of each exercise definition
FeedbackOf(name) ==
    IF name = NAME_Squats
    THEN <<Rule(COND_gt_160_UP, "Great rep!", "Great squat!"),
           Rule(COND_lt_70, "Too deep", NoVoice)>>
    ELSE IF name = NAME_Pushups
    THEN <<Rule(COND_lt_90_DOWN, "Good depth!", NoVoice),
           Rule(COND_gt_160, "Arms extended", "Now lower down")>>
    ELSE IF name = NAME_BicepCurls
    THEN <<Rule(COND_lt_30, "Full curl", "")>>
    ELSE << >>

-----------------------------------------------------------------------------
(* Exercise definitions *)

\* dict.get that never finds the key
Get_default(d, key, default) == default

\* dict.get(key, default)
Get(d, key, default) == IF key \in DOMAIN d THEN d[key] ELSE default

Empty == [k \in {} |-> 0]

\* The `parameters` mappings of the exercise definitions: none given (the
\* defaults apply), all three thresholds given, only the start threshold given.
ParameterSets ==
    { Empty,
      [k \in {"angle_threshold_start", "angle_threshold_down", "angle_threshold_up"} |->
          CASE k = "angle_threshold_start" -> 80
            [] k = "angle_threshold_down" -> 70
            [] k = "angle_threshold_up" -> 40],
      [k \in {"angle_threshold_start"} |-> 45] }

\* The `landmarks` mappings of the exercise definitions: joint name to the id
\* the pose detector gives the joint
HipTriple ==
    [k \in {"hip", "knee", "ankle"} |->
        CASE k = "hip" -> 23 [] k = "knee" -> 25 [] k = "ankle" -> 27]

ShoulderTriple ==
    [k \in {"shoulder", "elbow", "wrist"} |->
        CASE k = "shoulder" -> 11 [] k = "elbow" -> 13 [] k = "wrist" -> 15]

LandmarksOf(name) ==
    IF name \in {NAME_Squats, NAME_Lunges} THEN HipTriple ELSE ShoulderTriple

\* The value of landmark1..landmark3 when the constructor assigned none
Unset == 0

\* The constructor's choice of the three joints: hip, knee, ankle when the
\* mapping has 'hip', else shoulder, elbow, wrist when it has 'shoulder'
FirstJoint(lms) ==
    IF "hip" \in DOMAIN lms THEN lms["hip"]
    ELSE IF "shoulder" \in DOMAIN lms THEN lms["shoulder"] ELSE Unset

VertexJoint(lms) ==
    IF "hip" \in DOMAIN lms THEN lms["knee"]
    ELSE IF "shoulder" \in DOMAIN lms THEN lms["elbow"] ELSE Unset

LastJoint(lms) ==
    IF "hip" \in DOMAIN lms THEN lms["ankle"]
    ELSE IF "shoulder" \in DOMAIN lms THEN lms["wrist"] ELSE Unset

ExerciseConfigs ==
    { [name |-> n, landmarks |-> LandmarksOf(n), parameters |-> p,
       feedback |-> FeedbackOf(n)] :
        n \in ExerciseNames, p \in ParameterSets }

AllConfigs ==
    { [name |-> n, landmarks |-> LandmarksOf(n), parameters |-> p,
       feedback |-> FeedbackOf(n)] :
        n \in AllNames, p \in ParameterSets }

-----------------------------------------------------------------------------
(* The engine's pure steps *)

Stages == {"START", "DOWN", "UP"}

\* exercise_name = self.exercise_config['name'].lower()
exercise_name(config) == LowerStr(Chars(config.name))

\* `sub in exercise_name`, tabulated once for the exercise definitions
name_has[n \in AllNames, sub \in {STR_squat, STR_push, STR_bicep}] ==
    Contains(exercise_name([name |-> n]), sub)

\* calculate_form_score as a linear penalty on the distance from 80 degrees,
\* without the fixed score steps
calculate_form_score_linear(config, stage, angle) ==
    IF angle >= 80 THEN 100 - 2 * (angle - 80) ELSE 100 - 2 * (80 - angle)

\* calculate_form_score with bands that exclude their edges
calculate_form_score_open(config, stage, angle) ==
    IF name_has[config.name, STR_squat]
    THEN IF stage = "DOWN"
         THEN IF 70 < angle /\ angle < 90 THEN 100
              ELSE IF 65 < angle /\ angle < 95 THEN 90
              ELSE IF 60 < angle /\ angle < 100 THEN 75
              ELSE IF 50 < angle /\ angle < 110 THEN 60
              ELSE 40
         ELSE 95
    ELSE IF name_has[config.name, STR_push]
    THEN IF stage = "DOWN"
         THEN IF 60 < angle /\ angle < 90 THEN 100
              ELSE IF 55 < angle /\ angle < 95 THEN 90
              ELSE IF 50 < angle /\ angle < 100 THEN 75
              ELSE 60
         ELSE 95
    ELSE IF name_has[config.name, STR_bicep]
    THEN IF stage = "UP"
         THEN IF 30 < angle /\ angle < 50 THEN 100
              ELSE IF 25 < angle /\ angle < 55 THEN 90
              ELSE IF 20 < angle /\ angle < 60 THEN 75
              ELSE 60
         ELSE 95
    ELSE 80

\* calculate_form_score without the score of the uncritical phases and of the
\* other exercises
calculate_form_score_any_phase(config, stage, angle) ==
    IF name_has[config.name, STR_squat]
    THEN IF stage = "DOWN"
         THEN IF 70 <= angle /\ angle <= 90 THEN 100
              ELSE IF 65 <= angle /\ angle <= 95 THEN 90
              ELSE IF 60 <= angle /\ angle <= 100 THEN 75
              ELSE IF 50 <= angle /\ angle <= 110 THEN 60
              ELSE 40
         ELSE 60
    ELSE IF name_has[config.name, STR_push]
    THEN IF stage = "DOWN"
         THEN IF 60 <= angle /\ angle <= 90 THEN 100
              ELSE IF 55 <= angle /\ angle <= 95 THEN 90
              ELSE IF 50 <= angle /\ angle <= 100 THEN 75
              ELSE 60
         ELSE 60
    ELSE IF name_has[config.name, STR_bicep]
    THEN IF stage = "UP"
         THEN IF 30 <= angle /\ angle <= 50 THEN 100
              ELSE IF 25 <= angle /\ angle <= 55 THEN 90
              ELSE IF 20 <= angle /\ angle <= 60 THEN 75
              ELSE 60
         ELSE 60
    ELSE 95

calculate_form_score(config, stage, angle) ==
    IF name_has[config.name, STR_squat]
    THEN IF stage = "DOWN"
         THEN IF 70 <= angle /\ angle <= 90 THEN 100
              ELSE IF 65 <= angle /\ angle <= 95 THEN 90
              ELSE IF 60 <= angle /\ angle <= 100 THEN 75
              ELSE IF 50 <= angle /\ angle <= 110 THEN 60
              ELSE 40
         ELSE 95
    ELSE IF name_has[config.name, STR_push]
    THEN IF stage = "DOWN"
         THEN IF 60 <= angle /\ angle <= 90 THEN 100
              ELSE IF 55 <= angle /\ angle <= 95 THEN 90
              ELSE IF 50 <= angle /\ angle <= 100 THEN 75
              ELSE 60
         ELSE 95
    ELSE IF name_has[config.name, STR_bicep]
    THEN IF stage = "UP"
         THEN IF 30 <= angle /\ angle <= 50 THEN 100
              ELSE IF 25 <= angle /\ angle <= 55 THEN 90
              ELSE IF 20 <= angle /\ angle <= 60 THEN 75
              ELSE 60
         ELSE 95
    ELSE 80

\* bicep_transition without the reset to START: an extension that does not
\* complete a repetition leaves the phase as it is
bicep_transition_noreset(stage, angle, start, up) ==
    IF angle > start
    THEN IF stage = "UP"
         THEN [stage |-> "DOWN", rep_completed |-> TRUE]
         ELSE [stage |-> stage, rep_completed |-> FALSE]
    ELSE IF angle < up
    THEN [stage |-> "UP", rep_completed |-> FALSE]
    ELSE [stage |-> stage, rep_completed |-> FALSE]

\* The bicep-curl branch of the state machine: START -> UP -> DOWN
bicep_transition(stage, angle, start, up) ==
    IF angle > start
    THEN IF stage = "UP"
         THEN [stage |-> "DOWN", rep_completed |-> TRUE]
         ELSE [stage |-> "START", rep_completed |-> FALSE]
    ELSE IF angle < up
    THEN [stage |-> "UP", rep_completed |-> FALSE]
    ELSE [stage |-> stage, rep_completed |-> FALSE]

\* squat_transition with `angle >= start` for `angle > start`
squat_transition_ge(stage, angle, start, down) ==
    IF angle >= start
    THEN IF stage = "DOWN"
         THEN [stage |-> "UP", rep_completed |-> TRUE]
         ELSE [stage |-> "START", rep_completed |-> FALSE]
    ELSE IF angle < down
    THEN [stage |-> "DOWN", rep_completed |-> FALSE]
    ELSE [stage |-> stage, rep_completed |-> FALSE]

\* squat_transition without the DOWN guard: every extension completes a rep
squat_transition_unguarded(stage, angle, start, down) ==
    IF angle > start
    THEN [stage |-> "UP", rep_completed |-> TRUE]
    ELSE IF angle < down
    THEN [stage |-> "DOWN", rep_completed |-> FALSE]
    ELSE [stage |-> stage, rep_completed |-> FALSE]

\* squat_transition with a strict entry: DOWN is entered from START only
squat_transition_strict(stage, angle, start, down) ==
    IF angle > start
    THEN IF stage = "DOWN"
         THEN [stage |-> "UP", rep_completed |-> TRUE]
         ELSE [stage |-> "START", rep_completed |-> FALSE]
    ELSE IF angle < down /\ stage # "UP"
    THEN [stage |-> "DOWN", rep_completed |-> FALSE]
    ELSE [stage |-> stage, rep_completed |-> FALSE]

\* squat_transition that forgets to leave DOWN at the boundary
squat_transition_sticky(stage, angle, start, down) ==
    IF angle > start
    THEN IF stage = "DOWN"
         THEN [stage |-> "DOWN", rep_completed |-> TRUE]
         ELSE [stage |-> "START", rep_completed |-> FALSE]
    ELSE IF angle < down
    THEN [stage |-> "DOWN", rep_completed |-> FALSE]
    ELSE [stage |-> stage, rep_completed |-> FALSE]

\* The squat and push-up branch of the state machine: START -> DOWN -> UP
squat_transition(stage, angle, start, down) ==
    IF angle > start
    THEN IF stage = "DOWN"
         THEN [stage |-> "UP", rep_completed |-> TRUE]
         ELSE [stage |-> "START", rep_completed |-> FALSE]
    ELSE IF angle < down
    THEN [stage |-> "DOWN", rep_completed |-> FALSE]
    ELSE [stage |-> stage, rep_completed |-> FALSE]

\* The state machine of process(): the new phase and rep_completed
transition(config, stage, angle, start, down, up) ==
    IF name_has[config.name, STR_bicep]
    THEN bicep_transition(stage, angle, start, up)
    ELSE squat_transition(stage, angle, start, down)

\* count_rep without the gate
count_rep_ungated(count, completed, score) ==
    IF completed THEN count + 1 ELSE count

\* count_rep counting the boundary twice
count_rep_double(count, completed, score) ==
    IF completed /\ score >= perfect_form_threshold THEN count + 2 ELSE count

\* count_rep taking a repetition away for a boundary below the gate
count_rep_penalty(count, completed, score) ==
    IF completed
    THEN IF score >= perfect_form_threshold THEN count + 1 ELSE count - 1
    ELSE count

\* The perfect-form gate: the new value of self.reps
count_rep(count, completed, score) ==
    IF completed /\ score >= perfect_form_threshold THEN count + 1 ELSE count

\* The rule of the feedback list that generate_feedback returns: the index of
\* the first one whose condition holds, 0 when none does.
RECURSIVE rule_from(_, _, _, _)
rule_from(rules, i, angle, stage) ==
    IF i > Len(rules) THEN 0
    ELSE IF condition_holds[rules[i].condition, angle, stage] THEN i
    ELSE rule_from(rules, i + 1, angle, stage)

first_rule(rules, angle, stage) == rule_from(rules, 1, angle, stage)

\* generate_feedback without the feedback of the good scores
generate_feedback_by_stage(config, angle, stage, score) ==
    IF score < perfect_form_threshold
    THEN IF score < 60
         THEN <<"Poor Form!", "Focus on your form! Slow down and control the movement!">>
         ELSE <<"Improve Form", "Almost there! Adjust your form slightly for perfect reps!">>
    ELSE LET i == first_rule(config.feedback, angle, stage)
         IN  IF i > 0
             THEN LET rule == config.feedback[i]
                  IN  <<rule.message,
                        IF rule.voice = NoVoice THEN rule.message ELSE rule.voice>>
             ELSE IF stage = "START" THEN <<"Ready", "Ready for next rep">>
             ELSE IF stage = "DOWN" THEN <<"Good depth!", "">>
             ELSE <<"Great rep!", "">>

\* generate_feedback that consults the rules before the score
generate_feedback_rules_first(config, angle, stage, score) ==
    LET i == first_rule(config.feedback, angle, stage)
    IN  IF i > 0
        THEN LET rule == config.feedback[i]
             IN  <<rule.message, IF rule.voice = NoVoice THEN rule.message ELSE rule.voice>>
        ELSE IF score < 60
        THEN <<"Poor Form!", "Focus on your form! Slow down and control the movement!">>
        ELSE IF score < perfect_form_threshold
        THEN <<"Improve Form", "Almost there! Adjust your form slightly for perfect reps!">>
        ELSE IF score >= 95
        THEN <<"Perfect Form!", "Excellent technique! Keep it up!">>
        ELSE <<"Good Form", "Great form! This rep will count!">>

\* generate_feedback whose positive branch asks for a score of 95
generate_feedback_perfect_only(config, angle, stage, score) ==
    IF score < perfect_form_threshold
    THEN IF score < 60
         THEN <<"Poor Form!", "Focus on your form! Slow down and control the movement!">>
         ELSE <<"Improve Form", "Almost there! Adjust your form slightly for perfect reps!">>
    ELSE LET i == first_rule(config.feedback, angle, stage)
         IN  IF i > 0
             THEN LET rule == config.feedback[i]
                  IN  <<rule.message,
                        IF rule.voice = NoVoice THEN rule.message ELSE rule.voice>>
             ELSE IF score >= 95
             THEN <<"Perfect Form!", "Excellent technique! Keep it up!">>
             ELSE IF stage = "START" THEN <<"Ready", "Ready for next rep">>
             ELSE IF stage = "DOWN" THEN <<"Good depth!", "">>
             ELSE IF stage = "UP" THEN <<"Great rep!", "">>
             ELSE <<"", "">>

\* generate_feedback: the pair (feedback, voice_message)
generate_feedback(config, angle, stage, score) ==
    IF score < perfect_form_threshold
    THEN IF score < 60
         THEN <<"Poor Form!", "Focus on your form! Slow down and control the movement!">>
         ELSE <<"Improve Form", "Almost there! Adjust your form slightly for perfect reps!">>
    ELSE LET i == first_rule(config.feedback, angle, stage)
         IN  IF i > 0
             THEN LET rule == config.feedback[i]
                  IN  <<rule.message,
                        IF rule.voice = NoVoice THEN rule.message ELSE rule.voice>>
             ELSE IF score >= 95
             THEN <<"Perfect Form!", "Excellent technique! Keep it up!">>
             ELSE IF score >= perfect_form_threshold
             THEN <<"Good Form", "Great form! This rep will count!">>
             ELSE IF stage = "START" THEN <<"Ready", "Ready for next rep">>
             ELSE IF stage = "DOWN" THEN <<"Good depth!", "">>
             ELSE IF stage = "UP" THEN <<"Great rep!", "">>
             ELSE <<"", "">>

-----------------------------------------------------------------------------
(* The voice channel: what the engine hands to VoiceFeedback.speak *)

Say(text, priority) == [text |-> text, priority |-> priority]

speak_exercise_start == <<Say("Starting exercise. Get into position!", TRUE)>>

speak_perfect_rep(count) ==
    IF count = 1 THEN <<Say("Perfect! One quality rep!", TRUE)>>
    ELSE IF count = 5 THEN <<Say("Excellent! Five perfect reps!", TRUE)>>
    ELSE IF count = 10 THEN <<Say("Outstanding! Ten perfect reps!", TRUE)>>
    ELSE IF count % 5 = 0 /\ count > 0 THEN <<Say("Amazing! N perfect reps completed!", TRUE)>>
    ELSE <<Say("Perfect rep N! Great form!", TRUE)>>

speak_form_warning(score) ==
    IF score < 60 THEN <<Say("Rep not counted! Focus on proper form!", TRUE)>>
    ELSE IF score < 75 THEN <<Say("Close! Improve your form for the rep to count!", TRUE)>>
    ELSE <<Say("Almost perfect! Just a bit more precision!", TRUE)>>

speak_form_feedback(text) == <<Say(text, FALSE)>>

-----------------------------------------------------------------------------
(* Landmark lists.  The pose detector appends one entry [id, cx, cy] per      *)
(* joint (pose_module.py); process() reads landmark[0], landmark[1] and      *)
(* landmark[2] of the entries.  An entry is modelled by its shape: the full  *)
(* [id, cx, cy] with integer coordinates, [id, 'a', 'b'] with coordinates    *)
(* that are strings, [id] without coordinates, the empty entry [] and None.  *)

Landmark(id, x, y) == [shape |-> "id,x,y", id |-> id, x |-> x, y |-> y]
TextLandmark(id)   == [shape |-> "id,str,str", id |-> id, x |-> 0, y |-> 0]
ShortLandmark(id)  == [shape |-> "id", id |-> id, x |-> 0, y |-> 0]
EmptyLandmark      == [shape |-> "[]", id |-> 0, x |-> 0, y |-> 0]
NoneLandmark       == [shape |-> "None", id |-> 0, x |-> 0, y |-> 0]

\* point = (landmark[1], landmark[2]); None while the joint was not seen
Point(x, y) == [found |-> TRUE, numeric |-> TRUE, x |-> x, y |-> y]
TextPoint   == [found |-> TRUE, numeric |-> FALSE, x |-> 0, y |-> 0]
NonePoint   == [found |-> FALSE, numeric |-> FALSE, x |-> 0, y |-> 0]

NoPoints ==
    [raised |-> "", point1 |-> NonePoint, point2 |-> NonePoint, point3 |-> NonePoint]

\* The loop `for landmark in landmarks` of process(), from entry i on, for
\* an engine whose landmark1..landmark3 are joints[1]..joints[3]: the three
\* points, or the exception reading an entry raises
RECURSIVE find_points(_, _, _, _)
find_points(list, joints, i, points) ==
    IF i > Len(list) THEN points
    ELSE LET landmark == list[i]
             point == IF landmark.shape = "id,x,y"
                      THEN Point(landmark.x, landmark.y)
                      ELSE TextPoint
         IN  IF landmark.shape = "None" THEN [points EXCEPT !.raised = "TypeError"]
             ELSE IF landmark.shape = "[]" THEN [points EXCEPT !.raised = "IndexError"]
             ELSE IF landmark.id = joints[1]
             THEN IF landmark.shape = "id"
                  THEN [points EXCEPT !.raised = "IndexError"]
                  ELSE find_points(list, joints, i + 1, [points EXCEPT !.point1 = point])
             ELSE IF landmark.id = joints[2]
             THEN IF landmark.shape = "id"
                  THEN [points EXCEPT !.raised = "IndexError"]
                  ELSE find_points(list, joints, i + 1, [points EXCEPT !.point2 = point])
             ELSE IF landmark.id = joints[3]
             THEN IF landmark.shape = "id"
                  THEN [points EXCEPT !.raised = "IndexError"]
                  ELSE find_points(list, joints, i + 1, [points EXCEPT !.point3 = point])
             ELSE find_points(list, joints, i + 1, points)

-----------------------------------------------------------------------------
(* calculate_angle, in whole degrees.  The angle with cosine                 *)
(* dot / sqrt(den2) is at least k degrees iff that cosine is at most         *)
(* cos(k degrees); the comparison is made on the squares, with cos^2 in      *)
(* millionths.                                                               *)

\* 1000000 * cos^2(k degrees) for k = 0..90, at index k + 1
CosSq ==
    << 1000000, 999695, 998782, 997261, 995134, 992404, 989074, 985148, 980631, 975528,
       969846, 963592, 956773, 949397, 941474, 933013, 924024, 914519, 904508, 894005,
       883022, 871572, 859670, 847329, 834565, 821394, 807831, 793893, 779596, 764960,
       750000, 734736, 719186, 703368, 687303, 671010, 654508, 637819, 620961, 603956,
       586824, 569587, 552264, 534878, 517450, 500000, 482550, 465122, 447736, 430413,
       413176, 396044, 379039, 362181, 345492, 328990, 312697, 296632, 280814, 265264,
       250000, 235040, 220404, 206107, 192169, 178606, 165435, 152671, 140330, 128428,
       116978, 105995, 95492, 85481, 75976, 66987, 58526, 50603, 43227, 36408,
       30154, 24472, 19369, 14852, 10926, 7596, 4866, 2739, 1218, 305,
       0 >>

cos_sq(k) == IF k <= 90 THEN CosSq[k + 1] ELSE CosSq[MaxAngle - k + 1]

AtLeastDegrees(dot, den2, k) ==
    IF dot >= 0
    THEN k <= 90 /\ dot * dot * 1000000 <= cos_sq(k) * den2
    ELSE k <= 90 \/ dot * dot * 1000000 >= cos_sq(k) * den2

\* math.degrees(math.acos(max(-1, min(1, dot / sqrt(den2))))), rounded down
acos_degrees(dot, den2) ==
    CHOOSE k \in 0..MaxAngle :
        /\ AtLeastDegrees(dot, den2, k)
        /\ (k = MaxAngle \/ ~AtLeastDegrees(dot, den2, k + 1))

\* cos_angle = dot_product / (magnitude1 * magnitude2), clamped and turned
\* into degrees; a zero divisor raises
divide_and_convert(dot_product, magnitude1_sq, magnitude2_sq) ==
    IF magnitude1_sq * magnitude2_sq = 0
    THEN [raised |-> "ZeroDivisionError", angle |-> 0]
    ELSE [raised |-> "",
          angle |-> acos_degrees(dot_product, magnitude1_sq * magnitude2_sq)]

\* Variant: without the zero-magnitude guard of lines 164-165
calculate_angle_unguarded(point1, point2, point3) ==
    IF ~(point1.numeric /\ point2.numeric /\ point3.numeric)
    THEN [raised |-> "TypeError", angle |-> 0]
    ELSE LET vector1 == <<point1.x - point2.x, point1.y - point2.y>>
             vector2 == <<point3.x - point2.x, point3.y - point2.y>>
         IN  divide_and_convert(
                 vector1[1] * vector2[1] + vector1[2] * vector2[2],
                 vector1[1] * vector1[1] + vector1[2] * vector1[2],
                 vector2[1] * vector2[1] + vector2[2] * vector2[2])

\* Variant: the vectors taken from point1 instead of from the vertex point2
calculate_angle_at_first(point1, point2, point3) ==
    IF ~(point1.numeric /\ point2.numeric /\ point3.numeric)
    THEN [raised |-> "TypeError", angle |-> 0]
    ELSE LET vector1 == <<point2.x - point1.x, point2.y - point1.y>>
             vector2 == <<point3.x - point1.x, point3.y - point1.y>>
             magnitude1_sq == vector1[1] * vector1[1] + vector1[2] * vector1[2]
             magnitude2_sq == vector2[1] * vector2[1] + vector2[2] * vector2[2]
         IN  IF magnitude1_sq = 0 \/ magnitude2_sq = 0
             THEN [raised |-> "", angle |-> 0]
             ELSE divide_and_convert(
                      vector1[1] * vector2[1] + vector1[2] * vector2[2],
                      magnitude1_sq, magnitude2_sq)

\* calculate_angle(point1, point2, point3), point2 being the vertex: the
\* angle, or the TypeError the subtraction of a string raises
calculate_angle(point1, point2, point3) ==
    IF ~(point1.numeric /\ point2.numeric /\ point3.numeric)
    THEN [raised |-> "TypeError", angle |-> 0]
    ELSE LET vector1 == <<point1.x - point2.x, point1.y - point2.y>>
             vector2 == <<point3.x - point2.x, point3.y - point2.y>>
             dot_product == vector1[1] * vector2[1] + vector1[2] * vector2[2]
             magnitude1_sq == vector1[1] * vector1[1] + vector1[2] * vector1[2]
             magnitude2_sq == vector2[1] * vector2[1] + vector2[2] * vector2[2]
         IN  IF magnitude1_sq = 0 \/ magnitude2_sq = 0
             THEN [raised |-> "", angle |-> 0]
             ELSE divide_and_convert(dot_product, magnitude1_sq, magnitude2_sq)

-----------------------------------------------------------------------------
(* Frames: the landmarks argument of process().  A "pose" frame stands for   *)
(* any list holding the three configured joints that form the given angle at *)
(* the vertex; a "list" frame is a list given entry by entry; "None" is the  *)
(* argument None.                                                            *)

NoFrame == [kind |-> "none", angle |-> 0, list |-> << >>]

NoneFrame == [kind |-> "None", angle |-> 0, list |-> << >>]

List(list) == [kind |-> "list", angle |-> 0, list |-> list]

\* The joints of a limb: the first joint at p, the vertex at q, the last at r,
\* as the detector reports them for the leg (23, 25, 27) and the arm (11, 13, 15)
Limbs(p, q, r) ==
    <<Landmark(11, p[1], p[2]), Landmark(13, q[1], q[2]), Landmark(15, r[1], r[2]),
      Landmark(23, p[1], p[2]), Landmark(25, q[1], q[2]), Landmark(27, r[1], r[2])>>

\* The lists fed to the engine: limbs without their last joint; a right angle;
\* a straight limb; a vertex that coincides with the first joint; vertices
\* without coordinates; last joints whose coordinates are strings; a None
\* entry after the joints; an entry without coordinates for a joint that is
\* not consulted; the empty list; a list holding an empty entry
Lists ==
    { <<Landmark(11, 0, 1), Landmark(13, 0, 0), Landmark(23, 0, 1), Landmark(25, 0, 0)>>,
      Limbs(<<0, 1>>, <<0, 0>>, <<1, 0>>),
      Limbs(<<0, 2>>, <<0, 1>>, <<0, 0>>),
      Limbs(<<1, 1>>, <<1, 1>>, <<2, 1>>),
      <<Landmark(11, 0, 1), ShortLandmark(13), Landmark(15, 1, 0),
        Landmark(23, 0, 1), ShortLandmark(25), Landmark(27, 1, 0)>>,
      <<Landmark(11, 0, 1), Landmark(13, 0, 0), TextLandmark(15),
        Landmark(23, 0, 1), Landmark(25, 0, 0), TextLandmark(27)>>,
      Limbs(<<0, 1>>, <<0, 0>>, <<1, 0>>) \o <<NoneLandmark>>,
      <<ShortLandmark(0)>> \o Limbs(<<0, 1>>, <<0, 0>>, <<1, 0>>),
      << >>,
      <<EmptyLandmark>> }

\* The value of `angle` when process() computed none
NoAngle == -1

\* No calculate_angle call on its own has been made
NoArgs == << >>
NoReturn == [raised |-> "", angle |-> NoAngle]

\* The request threads: each serves one request at a time
MaxThreads == 2
Threads == 1..MaxThreads

\* The locals of a thread outside generate_frames
NoLocal == [angle |-> NoAngle, rep_completed |-> FALSE, returned |-> << >>,
            stale |-> FALSE]

\* feedback_cooldown: 3 seconds between voice feedback
feedback_cooldown == 3

\* A message older than this when the worker takes it is not spoken
max_age == 2

Never == -1
NoMessage == [text |-> "", priority |-> FALSE, timestamp |-> Never]
NoCall == [text |-> "", priority |-> FALSE, time |-> Never]

\* VoiceFeedback(): the queue is empty and the worker waits on it.  The clock
\* starts where a first non-priority message passes the cooldown test
\* against last_feedback_time = 0, as time.time() does.
NoSpeech ==
    /\ feedback_queue = << >>
    /\ is_speaking = FALSE
    /\ last_feedback_time = 0
    /\ now = feedback_cooldown
    /\ worker = "get"
    /\ saying = NoMessage
    /\ speak_call = NoCall
    /\ last_plain_start = Never
    /\ last_finished = Never

\* No request is being served
NoThreads ==
    /\ pc = [t \in Threads |-> "idle"]
    /\ frame_local = [t \in Threads |-> NoLocal]

\* The landmark triples of the exercise definitions
Triples ==
    { <<FirstJoint(c.landmarks), VertexJoint(c.landmarks), LastJoint(c.landmarks)>> :
        c \in ExerciseConfigs }

\* locate that takes a missing joint for an error of the calculation
locate_missing_as_error(list, joints) ==
    LET points == find_points(list, joints, 1, NoPoints)
        calc   == calculate_angle(points.point1, points.point2, points.point3)
    IN  IF Len(list) = 0
        THEN [text |-> "No pose detected", angle |-> NoAngle]
        ELSE IF points.raised # ""
        THEN [text |-> "Error calculating angle", angle |-> NoAngle]
        ELSE IF ~(points.point1.found /\ points.point2.found /\ points.point3.found)
        THEN [text |-> "Error calculating angle", angle |-> NoAngle]
        ELSE IF calc.raised # ""
        THEN [text |-> "Error calculating angle", angle |-> NoAngle]
        ELSE [text |-> "", angle |-> calc.angle]

\* Lines 64-87 of process() on a list given entry by entry: the feedback text
\* of the early return, or the angle
locate(list, joints) ==
    LET points == find_points(list, joints, 1, NoPoints)
        calc   == calculate_angle(points.point1, points.point2, points.point3)
    IN  IF Len(list) = 0
        THEN [text |-> "No pose detected", angle |-> NoAngle]
        ELSE IF points.raised # ""
        THEN [text |-> "Error calculating angle", angle |-> NoAngle]
        ELSE IF ~(points.point1.found /\ points.point2.found /\ points.point3.found)
        THEN [text |-> "Required landmarks not detected", angle |-> NoAngle]
        ELSE IF calc.raised # ""
        THEN [text |-> "Error calculating angle", angle |-> NoAngle]
        ELSE [text |-> "", angle |-> calc.angle]

\* locate, tabulated once for the lists and the triples
located[list \in Lists, joints \in Triples] == locate(list, joints)

Frames ==
    {NoneFrame}
      \cup {List(l) : l \in Lists}
      \cup {[kind |-> "pose", angle |-> a, list |-> << >>] : a \in AngleSamples}

NoResult == << >>

-----------------------------------------------------------------------------
(* The engine *)

Constructed(configs) ==
    /\ engine = 1
    /\ exercise_config \in configs
    /\ voice_attached \in BOOLEAN
    /\ current_stage = "START"
    /\ reps = 0
    /\ feedback = ""
    /\ voice_message = ""
    /\ form_score = 100
    /\ perfect_form_threshold = 85
    /\ landmark1 = FirstJoint(exercise_config.landmarks)
    /\ landmark2 = VertexJoint(exercise_config.landmarks)
    /\ landmark3 = LastJoint(exercise_config.landmarks)
    /\ start_threshold = Get(exercise_config.parameters, "angle_threshold_start", 160)
    /\ down_threshold = Get(exercise_config.parameters, "angle_threshold_down", 90)
    /\ up_threshold = Get(exercise_config.parameters, "angle_threshold_up", 50)
    /\ feedback_threshold = Get(exercise_config.parameters, "feedback_threshold", 100)
    /\ perfect_ranges = <<Get(exercise_config.parameters, "perfect_range_min", 70),
                          Get(exercise_config.parameters, "perfect_range_max", 90)>>
    /\ spoken = IF voice_attached THEN speak_exercise_start ELSE << >>
    /\ op = "init"
    /\ landmarks = NoFrame
    /\ frame_angle = NoAngle
    /\ previous_stage = "START"
    /\ rep_completed = FALSE
    /\ result = NoResult
    /\ raised = ""
    /\ run_incs = 0
    /\ below_down_seen = FALSE
    /\ since_boundary = "none"
    /\ current_exercise_name = "squat"
    /\ current_reps = 0
    /\ app_current_stage = "START"
    /\ current_feedback = ""
    /\ current_voice_message = ""
    /\ current_form_score = 100
    /\ response = 0
    /\ angle_args = NoArgs
    /\ angle_returned = NoReturn
    /\ NoThreads
    /\ NoSpeech

\* An engine of one of the exercise definitions
Init == Constructed(ExerciseConfigs)

\* The phase a repetition starts from: UP for the bicep machine, DOWN for
\* the other
critical_stage(config) ==
    IF name_has[config.name, STR_bicep] THEN "UP" ELSE "DOWN"

critical_threshold(config) ==
    IF name_has[config.name, STR_bicep] THEN up_threshold ELSE down_threshold

\* since_boundary after a frame of angle a that took the transition tr
boundary_seen(before, tr, a) ==
    IF tr.rep_completed THEN "waiting"
    ELSE IF /\ before = "waiting"
            /\ tr.stage = critical_stage(exercise_config)
            /\ a < critical_threshold(exercise_config)
         THEN "reentered"
    ELSE before

\* process() raising to its caller: no statement that assigns was reached
Raised(lm, exception) ==
    /\ raised' = exception
    /\ result' = NoResult
    /\ frame_angle' = NoAngle
    /\ UNCHANGED engine_vars
    /\ previous_stage' = current_stage
    /\ rep_completed' = FALSE
    /\ spoken' = << >>
    /\ run_incs' = IF op = "process" /\ landmarks = lm THEN run_incs ELSE 0
    /\ UNCHANGED below_down_seen
    /\ UNCHANGED since_boundary

\* process() returning early: nothing of the engine changes
Rejected(lm, text) ==
    /\ result' = <<reps, current_stage, text, "", 0>>
    /\ raised' = ""
    /\ frame_angle' = NoAngle
    /\ UNCHANGED engine_vars
    /\ previous_stage' = current_stage
    /\ rep_completed' = FALSE
    /\ spoken' = << >>
    /\ run_incs' = IF op = "process" /\ landmarks = lm THEN run_incs ELSE 0
    /\ UNCHANGED below_down_seen
    /\ UNCHANGED since_boundary

\* Processed saying nothing about a repetition it discards
Processed_silent_discard(lm, a) ==
    LET score == calculate_form_score(exercise_config, current_stage, a)
        tr    == transition(exercise_config, current_stage, a,
                            start_threshold, down_threshold, up_threshold)
        count == count_rep(reps, tr.rep_completed, score)
        fb    == generate_feedback(exercise_config, a, tr.stage, score)
    IN  /\ frame_angle' = a
        /\ raised' = ""
        /\ form_score' = score
        /\ previous_stage' = current_stage
        /\ current_stage' = tr.stage
        /\ rep_completed' = tr.rep_completed
        /\ reps' = count
        /\ feedback' = fb[1]
        /\ voice_message' = fb[2]
        /\ spoken' =
             IF voice_attached
             THEN (IF tr.rep_completed
                   THEN IF score >= perfect_form_threshold
                        THEN speak_perfect_rep(count)
                        ELSE << >>
                   ELSE << >>)
                  \o (IF fb[2] # "" THEN speak_form_feedback(fb[2]) ELSE << >>)
             ELSE << >>
        /\ result' = <<count, tr.stage, fb[1], fb[2], score>>
        /\ run_incs' = (IF op = "process" /\ landmarks = lm THEN run_incs ELSE 0)
                         + (count - reps)
        /\ below_down_seen' = (below_down_seen \/ a < down_threshold)
        /\ since_boundary' = boundary_seen(since_boundary, tr, a)

\* Processed scoring the frame in the phase the transition leads to
Processed_late_score(lm, a) ==
    LET tr    == transition(exercise_config, current_stage, a,
                            start_threshold, down_threshold, up_threshold)
        score == calculate_form_score(exercise_config, tr.stage, a)
        count == count_rep(reps, tr.rep_completed, score)
        fb    == generate_feedback(exercise_config, a, tr.stage, score)
    IN  /\ frame_angle' = a
        /\ raised' = ""
        /\ form_score' = score
        /\ previous_stage' = current_stage
        /\ current_stage' = tr.stage
        /\ rep_completed' = tr.rep_completed
        /\ reps' = count
        /\ feedback' = fb[1]
        /\ voice_message' = fb[2]
        /\ spoken' =
             IF voice_attached
             THEN (IF tr.rep_completed
                   THEN IF score >= perfect_form_threshold
                        THEN speak_perfect_rep(count)
                        ELSE speak_form_warning(score)
                   ELSE << >>)
                  \o (IF fb[2] # "" THEN speak_form_feedback(fb[2]) ELSE << >>)
             ELSE << >>
        /\ result' = <<count, tr.stage, fb[1], fb[2], score>>
        /\ run_incs' = (IF op = "process" /\ landmarks = lm THEN run_incs ELSE 0)
                         + (count - reps)
        /\ below_down_seen' = (below_down_seen \/ a < down_threshold)
        /\ since_boundary' = boundary_seen(since_boundary, tr, a)

\* process() past the angle calculation, the three joints forming angle a
Processed(lm, a) ==
    LET score == calculate_form_score(exercise_config, current_stage, a)
        tr    == transition(exercise_config, current_stage, a,
                            start_threshold, down_threshold, up_threshold)
        count == count_rep(reps, tr.rep_completed, score)
        fb    == generate_feedback(exercise_config, a, tr.stage, score)
    IN  /\ frame_angle' = a
        /\ raised' = ""
        /\ form_score' = score
        /\ previous_stage' = current_stage
        /\ current_stage' = tr.stage
        /\ rep_completed' = tr.rep_completed
        /\ reps' = count
        /\ feedback' = fb[1]
        /\ voice_message' = fb[2]
        /\ spoken' =
             IF voice_attached
             THEN (IF tr.rep_completed
                   THEN IF score >= perfect_form_threshold
                        THEN speak_perfect_rep(count)
                        ELSE speak_form_warning(score)
                   ELSE << >>)
                  \o (IF fb[2] # "" THEN speak_form_feedback(fb[2]) ELSE << >>)
             ELSE << >>
        /\ result' = <<count, tr.stage, fb[1], fb[2], score>>
        /\ run_incs' = (IF op = "process" /\ landmarks = lm THEN run_incs ELSE 0)
                         + (count - reps)
        /\ below_down_seen' = (below_down_seen \/ a < down_threshold)
        /\ since_boundary' = boundary_seen(since_boundary, tr, a)

\* process() on a list given entry by entry
Located(lm) ==
    LET outcome == located[lm.list, <<landmark1, landmark2, landmark3>>]
    IN  IF outcome.text # ""
        THEN Rejected(lm, outcome.text)
        ELSE Processed(lm, outcome.angle)

process ==
    /\ reps < MaxReps
    /\ \E lm \in Frames :
         /\ op' = "process"
         /\ landmarks' = lm
         /\ CASE lm.kind = "None" -> Raised(lm, "TypeError")
              [] lm.kind = "list" -> Located(lm)
              [] OTHER -> Processed(lm, lm.angle)
    /\ UNCHANGED <<engine, config_vars, app_vars, calc_vars, thread_vars, voice_vars>>

\* reset() that forgets the stored form score
reset_keeps_score ==
    /\ reps' = 0
    /\ current_stage' = "START"
    /\ feedback' = ""
    /\ voice_message' = ""
    /\ UNCHANGED form_score
    /\ op' = "reset"
    /\ landmarks' = NoFrame
    /\ frame_angle' = NoAngle
    /\ previous_stage' = "START"
    /\ rep_completed' = FALSE
    /\ spoken' = << >>
    /\ raised' = ""
    /\ run_incs' = 0
    /\ below_down_seen' = FALSE
    /\ UNCHANGED since_boundary
    /\ UNCHANGED result
    /\ UNCHANGED <<engine, config_vars, app_vars, calc_vars, thread_vars, voice_vars>>

reset ==
    /\ reps' = 0
    /\ current_stage' = "START"
    /\ feedback' = ""
    /\ voice_message' = ""
    /\ form_score' = 100
    /\ op' = "reset"
    /\ landmarks' = NoFrame
    /\ frame_angle' = NoAngle
    /\ previous_stage' = "START"
    /\ rep_completed' = FALSE
    /\ spoken' = << >>
    /\ raised' = ""
    /\ run_incs' = 0
    /\ below_down_seen' = FALSE
    /\ UNCHANGED since_boundary
    /\ UNCHANGED result
    /\ UNCHANGED <<engine, config_vars, app_vars, calc_vars, thread_vars, voice_vars>>

Next == process \/ reset

Spec == Init /\ [][Next]_vars

-----------------------------------------------------------------------------
(* app.py: the engine behind the global exercise_engine, and the route that  *)
(* switches the exercise                                                     *)

\* AVAILABLE_EXERCISES: the 'name' of each key
AVAILABLE_EXERCISES ==
    [k \in {"squat", "pushup", "bicep_curl"} |->
        CASE k = "squat" -> NAME_Squats
          [] k = "pushup" -> NAME_Pushups
          [] k = "bicep_curl" -> NAME_BicepCurls]

\* The exercise names a /set_exercise/<exercise_name> request may carry
RequestNames == DOMAIN AVAILABLE_EXERCISES \cup {"lunge"}

\* The module-level statements: ExerciseEngine('exercises/squat.yaml', voice_feedback)
InitApp ==
    /\ Init
    /\ exercise_config.name = AVAILABLE_EXERCISES["squat"]
    /\ voice_attached

\* set_exercise that loads the definition into the engine it finds
set_exercise_in_place ==
    /\ engine < MaxEngines
    /\ UNCHANGED <<calc_vars, thread_vars, voice_vars>>
    /\ \E requested \in DOMAIN AVAILABLE_EXERCISES, config \in ExerciseConfigs :
         /\ config.name = AVAILABLE_EXERCISES[requested]
         /\ op' = "set_exercise"
         /\ UNCHANGED engine
         /\ exercise_config' = config
         /\ landmark1' = FirstJoint(config.landmarks)
         /\ landmark2' = VertexJoint(config.landmarks)
         /\ landmark3' = LastJoint(config.landmarks)
         /\ start_threshold' = Get(config.parameters, "angle_threshold_start", 160)
         /\ down_threshold' = Get(config.parameters, "angle_threshold_down", 90)
         /\ up_threshold' = Get(config.parameters, "angle_threshold_up", 50)
         /\ UNCHANGED <<voice_attached, perfect_form_threshold, feedback_threshold,
                        perfect_ranges>>
         /\ UNCHANGED <<engine_vars, landmarks, frame_angle, previous_stage,
                        rep_completed, result, raised, spoken, run_incs,
                        below_down_seen, since_boundary>>
         /\ current_exercise_name' = requested
         /\ current_reps' = 0
         /\ app_current_stage' = "START"
         /\ current_feedback' = ""
         /\ UNCHANGED <<current_voice_message, current_form_score>>
         /\ response' = 200

\* set_exercise(exercise_name): 404 for a name that is not available; else a
\* new ExerciseEngine is constructed from the exercise's file and bound to
\* exercise_engine, and the globals are reset; 500 and nothing changed when
\* the constructor raises
set_exercise ==
    /\ engine < MaxEngines
    /\ op' = "set_exercise"
    /\ UNCHANGED <<calc_vars, thread_vars, voice_vars>>
    /\ \E requested \in RequestNames :
         IF requested \notin DOMAIN AVAILABLE_EXERCISES
         THEN /\ response' = 404
              /\ UNCHANGED <<engine, config_vars, engine_vars, landmarks, frame_angle,
                             previous_stage, rep_completed, result, raised, spoken,
                             run_incs, below_down_seen, since_boundary,
                             current_exercise_name,
                             current_reps, app_current_stage, current_feedback,
                             current_voice_message, current_form_score>>
         ELSE \/ /\ response' = 500
                 /\ UNCHANGED <<engine, config_vars, engine_vars, landmarks,
                                frame_angle, previous_stage, rep_completed, result,
                                raised, spoken, run_incs, below_down_seen, since_boundary,
                                current_exercise_name, current_reps,
                                app_current_stage, current_feedback,
                                current_voice_message, current_form_score>>
              \/ \E config \in ExerciseConfigs :
                   /\ config.name = AVAILABLE_EXERCISES[requested]
                   /\ engine' = engine + 1
                   /\ exercise_config' = config
                   /\ voice_attached' = TRUE
                   /\ current_stage' = "START"
                   /\ reps' = 0
                   /\ feedback' = ""
                   /\ voice_message' = ""
                   /\ form_score' = 100
                   /\ perfect_form_threshold' = 85
                   /\ landmark1' = FirstJoint(config.landmarks)
                   /\ landmark2' = VertexJoint(config.landmarks)
                   /\ landmark3' = LastJoint(config.landmarks)
                   /\ start_threshold' = Get(config.parameters, "angle_threshold_start", 160)
                   /\ down_threshold' = Get(config.parameters, "angle_threshold_down", 90)
                   /\ up_threshold' = Get(config.parameters, "angle_threshold_up", 50)
                   /\ feedback_threshold' = Get(config.parameters, "feedback_threshold", 100)
                   /\ perfect_ranges' =
                        <<Get(config.parameters, "perfect_range_min", 70),
                          Get(config.parameters, "perfect_range_max", 90)>>
                   /\ spoken' = speak_exercise_start
                   /\ landmarks' = NoFrame
                   /\ frame_angle' = NoAngle
                   /\ previous_stage' = "START"
                   /\ rep_completed' = FALSE
                   /\ result' = NoResult
                   /\ raised' = ""
                   /\ run_incs' = 0
                   /\ below_down_seen' = FALSE
                   /\ since_boundary' = "none"
                   /\ current_exercise_name' = requested
                   /\ current_reps' = 0
                   /\ app_current_stage' = "START"
                   /\ current_feedback' = ""
                   /\ UNCHANGED <<current_voice_message, current_form_score>>
                   /\ response' = 200

NextApp == process \/ reset \/ set_exercise

SpecApp == InitApp /\ [][NextApp]_vars

-----------------------------------------------------------------------------
(* The constructor on arbitrary exercise files.  A file is absent, cannot be *)
(* parsed, or holds a mapping; the mapping may lack the `landmarks`, the     *)
(* `parameters` or the `feedback` key, and its `landmarks` may name the leg, *)
(* the arm, a hip without knee and ankle, or none of these joints.           *)

\* A mapping of one key, or the empty mapping when the key is not present
Entry(key, present, value) == IF present THEN [k \in {key} |-> value] ELSE Empty

LandmarkMappings ==
    {HipTriple, ShoulderTriple, [k \in {"hip"} |-> 23], [k \in {"foot"} |-> 31]}

\* The `parameters` mappings of the files: those of the exercise definitions,
\* one that gives the feedback threshold and the perfect range only, and one
\* that gives all six parameters
FileParameterSets ==
    ParameterSets
      \cup { [k \in {"feedback_threshold", "perfect_range_min", "perfect_range_max"} |->
                CASE k = "feedback_threshold" -> 120
                  [] k = "perfect_range_min" -> 60
                  [] k = "perfect_range_max" -> 100],
             [k \in {"angle_threshold_start", "angle_threshold_down",
                     "angle_threshold_up", "feedback_threshold",
                     "perfect_range_min", "perfect_range_max"} |->
                CASE k = "angle_threshold_start" -> 150
                  [] k = "angle_threshold_down" -> 100
                  [] k = "angle_threshold_up" -> 60
                  [] k = "feedback_threshold" -> 110
                  [] k = "perfect_range_min" -> 75
                  [] k = "perfect_range_max" -> 85] }

ExerciseFiles ==
    {[kind |-> k, content |-> Empty] : k \in {"absent", "unparsable"}}
      \cup { [kind |-> "mapping",
              content |-> [k \in {"name"} |-> n]
                            @@ Entry("landmarks", present[1], l)
                            @@ Entry("parameters", present[2], p)
                            @@ Entry("feedback", present[3], << >>)] :
               n \in ExerciseNames,
               l \in LandmarkMappings,
               p \in FileParameterSets,
               present \in BOOLEAN \X BOOLEAN \X BOOLEAN }

\* The exception ExerciseEngine(exercise_file) raises, "" if it raises none
constructor_raises(file) ==
    IF file.kind = "absent" THEN "FileNotFoundError"
    ELSE IF file.kind = "unparsable" THEN "YAMLError"
    ELSE IF "landmarks" \notin DOMAIN file.content THEN "KeyError"
    ELSE IF /\ "hip" \in DOMAIN file.content.landmarks
            /\ ~({"knee", "ankle"} \subseteq DOMAIN file.content.landmarks)
    THEN "KeyError"
    ELSE IF /\ "hip" \notin DOMAIN file.content.landmarks
            /\ "shoulder" \in DOMAIN file.content.landmarks
            /\ ~({"elbow", "wrist"} \subseteq DOMAIN file.content.landmarks)
    THEN "KeyError"
    ELSE IF "parameters" \notin DOMAIN file.content THEN "KeyError"
    ELSE ""

\* No engine: before the first constructor call, and after one that raised
NoEngine ==
    /\ engine = 0
    /\ exercise_config = Empty
    /\ voice_attached = FALSE
    /\ current_stage = "START"
    /\ reps = 0
    /\ feedback = ""
    /\ voice_message = ""
    /\ form_score = 100
    /\ perfect_form_threshold = 85
    /\ landmark1 = Unset /\ landmark2 = Unset /\ landmark3 = Unset
    /\ start_threshold = 160 /\ down_threshold = 90 /\ up_threshold = 50
    /\ feedback_threshold = 100
    /\ perfect_ranges = <<70, 90>>
    /\ spoken = << >>

InitConstruct ==
    /\ NoEngine
    /\ op = "none"
    /\ raised = ""
    /\ landmarks = NoFrame
    /\ frame_angle = NoAngle
    /\ previous_stage = "START"
    /\ rep_completed = FALSE
    /\ result = NoResult
    /\ run_incs = 0
    /\ below_down_seen = FALSE
    /\ since_boundary = "none"
    /\ current_exercise_name = "squat"
    /\ current_reps = 0
    /\ app_current_stage = "START"
    /\ current_feedback = ""
    /\ current_voice_message = ""
    /\ current_form_score = 100
    /\ response = 0
    /\ angle_args = NoArgs
    /\ angle_returned = NoReturn
    /\ NoThreads
    /\ NoSpeech

\* ExerciseEngine(exercise_file, voice_feedback)
construct ==
    /\ op' = "construct"
    /\ UNCHANGED <<landmarks, frame_angle, previous_stage, rep_completed, result,
                   run_incs, below_down_seen, since_boundary, app_vars, calc_vars,
                   thread_vars, voice_vars>>
    /\ \E file \in ExerciseFiles, voice \in BOOLEAN :
         /\ raised' = constructor_raises(file)
         /\ IF constructor_raises(file) # ""
            THEN /\ engine' = 0
                 /\ exercise_config' = Empty
                 /\ voice_attached' = FALSE
                 /\ current_stage' = "START"
                 /\ reps' = 0
                 /\ feedback' = ""
                 /\ voice_message' = ""
                 /\ form_score' = 100
                 /\ perfect_form_threshold' = 85
                 /\ landmark1' = Unset /\ landmark2' = Unset /\ landmark3' = Unset
                 /\ start_threshold' = 160 /\ down_threshold' = 90
                 /\ up_threshold' = 50
                 /\ feedback_threshold' = 100
                 /\ perfect_ranges' = <<70, 90>>
                 /\ spoken' = << >>
            ELSE /\ engine' = 1
                 /\ exercise_config' = file.content
                 /\ voice_attached' = voice
                 /\ current_stage' = "START"
                 /\ reps' = 0
                 /\ feedback' = ""
                 /\ voice_message' = ""
                 /\ form_score' = 100
                 /\ perfect_form_threshold' = 85
                 /\ landmark1' = FirstJoint(file.content.landmarks)
                 /\ landmark2' = VertexJoint(file.content.landmarks)
                 /\ landmark3' = LastJoint(file.content.landmarks)
                 /\ start_threshold' =
                      Get(file.content.parameters, "angle_threshold_start", 160)
                 /\ down_threshold' =
                      Get(file.content.parameters, "angle_threshold_down", 90)
                 /\ up_threshold' =
                      Get(file.content.parameters, "angle_threshold_up", 50)
                 /\ feedback_threshold' =
                      Get(file.content.parameters, "feedback_threshold", 100)
                 /\ perfect_ranges' =
                      <<Get(file.content.parameters, "perfect_range_min", 70),
                        Get(file.content.parameters, "perfect_range_max", 90)>>
                 /\ spoken' = IF voice THEN speak_exercise_start ELSE << >>

NextConstruct == construct

SpecConstruct == InitConstruct /\ [][NextConstruct]_vars

-----------------------------------------------------------------------------
\* calculate_angle on its own: the three points are drawn from a grid of
\* pixel coordinates, and the one step is the call.

GridMax == 3
Grid == 0..GridMax
GridPoints == {Point(x, y) : x \in Grid, y \in Grid}

InitAngle ==
    /\ NoEngine
    /\ op = "none"
    /\ raised = ""
    /\ landmarks = NoFrame
    /\ frame_angle = NoAngle
    /\ previous_stage = "START"
    /\ rep_completed = FALSE
    /\ result = NoResult
    /\ run_incs = 0
    /\ below_down_seen = FALSE
    /\ since_boundary = "none"
    /\ current_exercise_name = "squat"
    /\ current_reps = 0
    /\ app_current_stage = "START"
    /\ current_feedback = ""
    /\ current_voice_message = ""
    /\ current_form_score = 100
    /\ response = 0
    /\ angle_args \in GridPoints \X GridPoints \X GridPoints
    /\ angle_returned = NoReturn
    /\ NoThreads
    /\ NoSpeech

\* angle = self.calculate_angle(point1, point2, point3)
call_calculate_angle ==
    /\ op = "none"
    /\ op' = "calculate_angle"
    /\ angle_returned' = calculate_angle(angle_args[1], angle_args[2], angle_args[3])
    /\ raised' = angle_returned'.raised
    /\ UNCHANGED <<engine, config_vars, engine_vars, app_vars, angle_args,
                   thread_vars, voice_vars, landmarks, frame_angle, previous_stage,
                   rep_completed, result,
                   spoken, run_incs, below_down_seen, since_boundary>>

NextAngle == call_calculate_angle

SpecAngle == InitAngle /\ [][NextAngle]_vars

-----------------------------------------------------------------------------
(* The application under app.run(threaded=True): every request is served on  *)
(* a thread of its own.  A /video_feed request runs the generate_frames      *)
(* loop, a /reset request runs the reset route; both use the one module-     *)
(* level exercise_engine and take no lock.  The interpreter may switch       *)
(* threads between any two statements; the steps below are groups of         *)
(* consecutive statements, so every interleaving of them is one of the       *)
(* program's.                                                                 *)

\* The angles the frames of a stream show
StreamAngles == {45, 89, 170}

\* Left alone by the steps of the threads
thread_frame == <<engine, config_vars, calc_vars, voice_vars, op, landmarks, frame_angle,
                  previous_stage, rep_completed, raised, run_incs, below_down_seen,
                  since_boundary,
                  current_exercise_name, response>>

InitThreads == InitApp

Goto(t, location) == pc' = [pc EXCEPT ![t] = location]

\* GET /video_feed: Response(generate_frames(), ...)
video_feed(t) ==
    /\ pc[t] = "idle"
    /\ Goto(t, "camera")
    /\ UNCHANGED <<thread_frame, engine_vars, frame_local, result, spoken,
                   current_reps, app_current_stage, current_feedback,
                   current_voice_message, current_form_score>>

\* camera.read() fails, or the client has gone: the generator ends
stream_ends(t) ==
    /\ pc[t] = "camera"
    /\ Goto(t, "idle")
    /\ frame_local' = [frame_local EXCEPT ![t] = NoLocal]
    /\ UNCHANGED <<thread_frame, engine_vars, result, spoken,
                   current_reps, app_current_stage, current_feedback,
                   current_voice_message, current_form_score>>

\* A frame with landmarks: exercise_engine.process(frame, landmarks) is
\* called and has computed the angle
read_frame(t) ==
    /\ pc[t] = "camera"
    /\ reps < MaxReps
    /\ \E a \in StreamAngles :
         frame_local' = [frame_local EXCEPT ![t] =
                            [angle |-> a, rep_completed |-> FALSE, returned |-> << >>,
                             stale |-> FALSE]]
    /\ Goto(t, "score")
    /\ UNCHANGED <<thread_frame, engine_vars, result, spoken,
                   current_reps, app_current_stage, current_feedback,
                   current_voice_message, current_form_score>>

\* self.form_score = self.calculate_form_score(angle)
process_score(t) ==
    /\ pc[t] = "score"
    /\ form_score' = calculate_form_score(exercise_config, current_stage,
                                          frame_local[t].angle)
    /\ Goto(t, "machine")
    /\ UNCHANGED <<thread_frame, current_stage, reps, feedback, voice_message,
                   frame_local, result, spoken,
                   current_reps, app_current_stage, current_feedback,
                   current_voice_message, current_form_score>>

\* The state machine
process_machine(t) ==
    /\ pc[t] = "machine"
    /\ LET tr == transition(exercise_config, current_stage, frame_local[t].angle,
                            start_threshold, down_threshold, up_threshold)
       IN  /\ current_stage' = tr.stage
           /\ frame_local' = [frame_local EXCEPT ![t].rep_completed = tr.rep_completed]
    /\ Goto(t, "gate")
    /\ UNCHANGED <<thread_frame, reps, feedback, voice_message, form_score,
                   result, spoken,
                   current_reps, app_current_stage, current_feedback,
                   current_voice_message, current_form_score>>

\* The gate: the repetition is counted or the warning spoken
process_gate(t) ==
    /\ pc[t] = "gate"
    /\ reps' = count_rep(reps, frame_local[t].rep_completed, form_score)
    /\ spoken' = IF frame_local[t].rep_completed /\ voice_attached
                 THEN IF form_score >= perfect_form_threshold
                      THEN speak_perfect_rep(reps')
                      ELSE speak_form_warning(form_score)
                 ELSE << >>
    /\ Goto(t, "feedback")
    /\ UNCHANGED <<thread_frame, current_stage, feedback, voice_message, form_score,
                   frame_local, result,
                   current_reps, app_current_stage, current_feedback,
                   current_voice_message, current_form_score>>

\* generate_feedback, the voice call and the return
process_feedback(t) ==
    /\ pc[t] = "feedback"
    /\ LET fb == generate_feedback(exercise_config, frame_local[t].angle,
                                   current_stage, form_score)
       IN  /\ feedback' = fb[1]
           /\ voice_message' = fb[2]
           /\ spoken' = IF voice_attached /\ fb[2] # ""
                        THEN speak_form_feedback(fb[2]) ELSE << >>
           /\ frame_local' = [frame_local EXCEPT ![t].returned =
                                 <<reps, current_stage, fb[1], fb[2], form_score>>]
    /\ Goto(t, "publish")
    /\ UNCHANGED <<thread_frame, current_stage, reps, form_score, result,
                   current_reps, app_current_stage, current_feedback,
                   current_voice_message, current_form_score>>

\* current_reps = reps ... : the frame is drawn and yielded
publish(t) ==
    /\ pc[t] = "publish"
    /\ current_reps' = frame_local[t].returned[1]
    /\ app_current_stage' = frame_local[t].returned[2]
    /\ current_feedback' = frame_local[t].returned[3]
    /\ current_voice_message' = frame_local[t].returned[4]
    /\ UNCHANGED current_form_score   \* line 93 assigns a local: no `global`
    /\ frame_local' = [frame_local EXCEPT ![t] = NoLocal]
    /\ Goto(t, "camera")
    /\ UNCHANGED <<thread_frame, engine_vars, result, spoken>>

\* POST /reset
reset_request(t) ==
    /\ pc[t] = "idle"
    /\ Goto(t, "reset")
    /\ UNCHANGED <<thread_frame, engine_vars, frame_local, result, spoken,
                   current_reps, app_current_stage, current_feedback,
                   current_voice_message, current_form_score>>

\* reset(): self.reps = 0; self.current_stage = "START"
reset_counts(t) ==
    /\ pc[t] = "reset"
    /\ reps' = 0
    /\ current_stage' = "START"
    /\ Goto(t, "reset_texts")
    /\ UNCHANGED <<thread_frame, feedback, voice_message, form_score, frame_local,
                   result, spoken,
                   current_reps, app_current_stage, current_feedback,
                   current_voice_message, current_form_score>>

\* reset(): self.feedback = ""; self.voice_message = ""; self.form_score = 100
reset_texts(t) ==
    /\ pc[t] = "reset_texts"
    /\ feedback' = ""
    /\ voice_message' = ""
    /\ form_score' = 100
    /\ Goto(t, "reset_globals")
    /\ UNCHANGED <<thread_frame, current_stage, reps, frame_local, result, spoken,
                   current_reps, app_current_stage, current_feedback,
                   current_voice_message, current_form_score>>

\* The rest of the reset route: the globals and the spoken confirmation.  The
\* tuples that process() returned before and that are not published yet are
\* marked stale (a history mark, no variable of the program).
reset_globals(t) ==
    /\ pc[t] = "reset_globals"
    /\ current_reps' = 0
    /\ app_current_stage' = "START"
    /\ current_feedback' = ""
    /\ current_voice_message' = ""
    /\ current_form_score' = 100
    /\ spoken' = <<Say("Perfect form counter reset! Ready for quality reps!", TRUE)>>
    /\ frame_local' = [u \in Threads |->
                          IF pc[u] = "publish"
                          THEN [frame_local[u] EXCEPT !.stale = TRUE]
                          ELSE frame_local[u]]
    /\ Goto(t, "idle")
    /\ UNCHANGED <<thread_frame, engine_vars, result>>

NextThreads ==
    \E t \in Threads :
        \/ video_feed(t)
        \/ stream_ends(t)
        \/ read_frame(t)
        \/ process_score(t)
        \/ process_machine(t)
        \/ process_gate(t)
        \/ process_feedback(t)
        \/ publish(t)
        \/ reset_request(t)
        \/ reset_counts(t)
        \/ reset_texts(t)
        \/ reset_globals(t)

SpecThreads == InitThreads /\ [][NextThreads]_vars

-----------------------------------------------------------------------------
\* The engine on every exercise definition, those included whose name holds
\* the words of two exercises

InitNames == Constructed(AllConfigs)

SpecNames == InitNames /\ [][Next]_vars

-----------------------------------------------------------------------------
(* VoiceFeedback on its own: callers on any thread call speak(), the daemon  *)
(* thread runs _voice_worker, and time passes.  Time is counted in whole     *)
(* seconds.                                                                   *)

MaxTime == 7
MaxQueue == 2

\* Texts handed to speak()
SpokenTexts == {"Perfect rep N! Great form!", "Great form! This rep will count!"}

Message(text, priority, timestamp) ==
    [text |-> text, priority |-> priority, timestamp |-> timestamp]

\* Left alone by the voice channel
voice_frame == <<engine, config_vars, engine_vars, app_vars, calc_vars, thread_vars,
                 landmarks, frame_angle, previous_stage, rep_completed, result, raised,
                 spoken, run_incs, below_down_seen, since_boundary>>

\* voice_feedback = VoiceFeedback(), before the engine is built
InitVoice == InitConstruct

\* speak() with the cooldown applied to priority messages too
speak_cooldown_for_all ==
    /\ Len(feedback_queue) < MaxQueue
    /\ \E text \in SpokenTexts, priority \in BOOLEAN :
         /\ speak_call' = [text |-> text, priority |-> priority, time |-> now]
         /\ feedback_queue' =
              IF now - last_feedback_time < feedback_cooldown
              THEN feedback_queue
              ELSE Append(feedback_queue, Message(text, priority, now))
    /\ op' = "speak"
    /\ UNCHANGED <<voice_frame, is_speaking, last_feedback_time, now, worker, saying,
                   last_plain_start, last_finished>>

\* speak(text, priority)
speak ==
    /\ Len(feedback_queue) < MaxQueue
    /\ \E text \in SpokenTexts, priority \in BOOLEAN :
         /\ speak_call' = [text |-> text, priority |-> priority, time |-> now]
         /\ feedback_queue' =
              IF ~priority /\ now - last_feedback_time < feedback_cooldown
              THEN feedback_queue
              ELSE Append(feedback_queue, Message(text, priority, now))
    /\ op' = "speak"
    /\ UNCHANGED <<voice_frame, is_speaking, last_feedback_time, now, worker, saying,
                   last_plain_start, last_finished>>

\* The worker's get() that speaks a priority message whatever its age
worker_get_priority_exempt ==
    /\ worker = "get"
    /\ feedback_queue # << >>
    /\ LET message == Head(feedback_queue)
       IN  /\ feedback_queue' = Tail(feedback_queue)
           /\ IF ~message.priority /\ now - message.timestamp > max_age
              THEN UNCHANGED <<is_speaking, worker, saying, last_plain_start>>
              ELSE /\ is_speaking' = TRUE
                   /\ worker' = "say"
                   /\ saying' = message
                   /\ last_plain_start' =
                        IF message.priority THEN last_plain_start ELSE now
    /\ op' = "worker_get"
    /\ UNCHANGED <<voice_frame, last_feedback_time, now, speak_call, last_finished>>

\* The worker takes the next message: skipped when older than 2 seconds,
\* else is_speaking = True and the speech engine is entered
worker_get ==
    /\ worker = "get"
    /\ feedback_queue # << >>
    /\ LET message == Head(feedback_queue)
       IN  /\ feedback_queue' = Tail(feedback_queue)
           /\ IF now - message.timestamp > max_age
              THEN UNCHANGED <<is_speaking, worker, saying, last_plain_start>>
              ELSE /\ is_speaking' = TRUE
                   /\ worker' = "say"
                   /\ saying' = message
                   /\ last_plain_start' =
                        IF message.priority THEN last_plain_start ELSE now
    /\ op' = "worker_get"
    /\ UNCHANGED <<voice_frame, last_feedback_time, now, speak_call, last_finished>>

\* say() and runAndWait() return: is_speaking = False, last_feedback_time = now
say_returns ==
    /\ worker = "say"
    /\ is_speaking' = FALSE
    /\ last_feedback_time' = now
    /\ last_finished' = now
    /\ worker' = "get"
    /\ saying' = NoMessage
    /\ op' = "say_returns"
    /\ UNCHANGED <<voice_frame, feedback_queue, now, speak_call, last_plain_start>>

\* say() or runAndWait() raises: the bare except goes back to the get()
say_raises ==
    /\ worker = "say"
    /\ worker' = "get"
    /\ saying' = NoMessage
    /\ op' = "say_raises"
    /\ UNCHANGED <<voice_frame, feedback_queue, is_speaking, last_feedback_time, now,
                   speak_call, last_plain_start, last_finished>>

\* A second passes
tick ==
    /\ now < MaxTime
    /\ now' = now + 1
    /\ op' = "tick"
    /\ UNCHANGED <<voice_frame, feedback_queue, is_speaking, last_feedback_time,
                   worker, saying, speak_call, last_plain_start, last_finished>>

NextVoice == speak \/ worker_get \/ say_returns \/ say_raises \/ tick

SpecVoice == InitVoice /\ [][NextVoice]_vars

-----------------------------------------------------------------------------
(* Vocabulary of the properties *)

Pose(a) == [kind |-> "pose", angle |-> a, list |-> << >>]

\* The exercise definitions whose name holds 'bicep', and those without it
ExtensionFirst == exercise_config.name = NAME_BicepCurls
FlexionFirst == exercise_config.name \in {NAME_Squats, NAME_Pushups, NAME_Lunges}

\* The step is a process() call, and one that computed the angle of its frame
ProcessCall == op' = "process"
PoseCall == op' = "process" /\ frame_angle' # NoAngle

\* The score of the first band <<low, high, score>> that holds the angle, edges
\* included, and the default when none does
FirstBand(bands, default, a) ==
    LET hits == {i \in 1..Len(bands) : bands[i][1] <= a /\ a <= bands[i][2]}
    IN  IF hits = {} THEN default
        ELSE bands[CHOOSE i \in hits : \A j \in hits : i <= j][3]

\* What a condition string asks for: the comparison of the angle with a
\* threshold and, for a conjunction, the phase it names ("" for none)
Reading(condition) ==
    CASE condition = COND_gt_160 -> [cmp |-> ">", T |-> 160, phase |-> ""]
      [] condition = COND_lt_70 -> [cmp |-> "<", T |-> 70, phase |-> ""]
      [] condition = COND_lt_30 -> [cmp |-> "<", T |-> 30, phase |-> ""]
      [] condition = COND_gt_160_UP -> [cmp |-> ">", T |-> 160, phase |-> "UP"]
      [] condition = COND_lt_90_DOWN -> [cmp |-> "<", T |-> 90, phase |-> "DOWN"]

\* The condition holds for the angle and the phase, as it reads
Asked(condition, a, phase) ==
    LET r == Reading(condition)
    IN  /\ IF r.cmp = ">" THEN a > r.T ELSE a < r.T
        /\ r.phase # "" => phase = r.phase

\* The indices of the rules whose condition holds as it reads
AskedRules(rules, a, phase) ==
    {i \in 1..Len(rules) : Asked(rules[i].condition, a, phase)}

\* The speak() calls of a call that are made with priority: the notifications
\* of a repetition boundary
Notifications(calls) == SelectSeq(calls, LAMBDA c : c.priority)

PerfectRepTexts ==
    {"Perfect! One quality rep!", "Excellent! Five perfect reps!",
     "Outstanding! Ten perfect reps!", "Amazing! N perfect reps completed!",
     "Perfect rep N! Great form!"}

FormWarningTexts ==
    {"Rep not counted! Focus on proper form!",
     "Close! Improve your form for the rep to count!",
     "Almost perfect! Just a bit more precision!"}

\* The frame of the step is a list given entry by entry
ListCall == op' = "process" /\ landmarks'.kind = "list"

\* Every entry of the list has the three fields id, x, y
ThreeFields(list) ==
    \A i \in 1..Len(list) : list[i].shape \in {"id,x,y", "id,str,str"}

\* One of the three configured joints has no entry in the list
JointAbsent(list) ==
    \E j \in {landmark1, landmark2, landmark3} :
        \A i \in 1..Len(list) : list[i].id # j

\* The entry of joint j that the engine retains: the last one in the list
EntryOf(list, j) ==
    list[CHOOSE i \in 1..Len(list) :
            /\ list[i].id = j
            /\ \A k \in (i + 1)..Len(list) : list[k].id # j]

\* The three joints are there with numbers for coordinates, and the vertex
\* lies on the first or on the last joint
ZeroLengthLeg(list) ==
    /\ ThreeFields(list) /\ ~JointAbsent(list)
    /\ \A j \in {landmark1, landmark2, landmark3} : EntryOf(list, j).shape = "id,x,y"
    /\ LET p1 == EntryOf(list, landmark1)
           p2 == EntryOf(list, landmark2)
           p3 == EntryOf(list, landmark3)
       IN  \/ (p1.x = p2.x /\ p1.y = p2.y)
           \/ (p3.x = p2.x /\ p3.y = p2.y)

\* The three joints are there, one of them with strings for coordinates
MalformedCoordinates(list) ==
    /\ ThreeFields(list) /\ ~JointAbsent(list)
    /\ \E j \in {landmark1, landmark2, landmark3} : EntryOf(list, j).shape = "id,str,str"

-----------------------------------------------------------------------------
(* Properties *)

\* C1: perfect-form gate.  Every process() call that detects a repetition
\* boundary increments reps by exactly 1 if the form score computed for that
\* frame is at least 85, and leaves reps unchanged if the score is below 85.
C1_PerfectFormGate ==
    [][(ProcessCall /\ rep_completed') =>
          IF form_score' >= 85 THEN reps' = reps + 1 ELSE reps' = reps]_vars

\* a boundary frame scored 85 or more has just been counted as the first rep
C1_Witness ==
    op = "process" /\ rep_completed /\ form_score >= 85 /\ reps = 1

\* C2: squat scenario with start threshold 160 and down threshold 90.  A frame
\* at 75 degrees received in phase DOWN scores 100, and the frame at 170
\* degrees that follows it sets the phase to UP, completes a repetition and
\* takes reps from 0 to 1.
C2_SquatScenario ==
    [][(/\ exercise_config.name = NAME_Squats
        /\ start_threshold = 160 /\ down_threshold = 90
        /\ op = "process" /\ landmarks = Pose(75) /\ previous_stage = "DOWN"
        /\ reps = 0
        /\ op' = "process" /\ landmarks' = Pose(170))
       => (/\ form_score = 100
           /\ current_stage' = "UP"
           /\ rep_completed'
           /\ reps' = 1)]_vars

\* C3: bicep-curl scenario with up threshold 50 and start threshold 160.  On
\* a fresh engine a frame at 40 degrees sets the phase to UP and reports form
\* score 100; the frame at 170 degrees that follows completes the repetition,
\* reps becomes 1 and the phase DOWN.
C3_BicepScenario ==
    /\ [][(/\ exercise_config.name = NAME_BicepCurls
           /\ start_threshold = 160 /\ up_threshold = 50
           /\ op = "init"
           /\ op' = "process" /\ landmarks' = Pose(40))
          => (current_stage' = "UP" /\ form_score' = 100 /\ result'[5] = 100)]_vars
    /\ [][(/\ exercise_config.name = NAME_BicepCurls
           /\ start_threshold = 160 /\ up_threshold = 50
           /\ op = "process" /\ landmarks = Pose(40)
           /\ previous_stage = "START" /\ current_stage = "UP" /\ reps = 0
           /\ op' = "process" /\ landmarks' = Pose(170))
          => (rep_completed' /\ reps' = 1 /\ current_stage' = "DOWN")]_vars

\* C4: flexion-first machine (a name without 'bicep').  A process() call
\* reports a repetition boundary exactly when the phase before the call is
\* DOWN and the frame's angle is strictly above the start threshold, and the
\* phase after such a call is UP.
C4_FlexionFirst ==
    [][(ProcessCall /\ FlexionFirst) =>
          /\ rep_completed' <=> (/\ frame_angle' # NoAngle
                                 /\ current_stage = "DOWN"
                                 /\ frame_angle' > start_threshold)
          /\ rep_completed' => current_stage' = "UP"]_vars

\* a flexion-first boundary: DOWN before the call, UP after it
C4_Witness ==
    /\ FlexionFirst /\ op = "process" /\ rep_completed
    /\ previous_stage = "DOWN" /\ current_stage = "UP"

\* C5: extension-first machine (a name holding 'bicep').  A process() call
\* reports a boundary exactly when the phase before it is UP and the angle is
\* above the start threshold, and the phase is then DOWN; an angle below the
\* up threshold (and not above the start threshold) sets the phase to UP from
\* any phase; an angle above the start threshold in START or DOWN sets the
\* phase to START without a repetition.
C5_ExtensionFirst ==
    [][(ProcessCall /\ ExtensionFirst) =>
          /\ rep_completed' <=> (/\ frame_angle' # NoAngle
                                 /\ current_stage = "UP"
                                 /\ frame_angle' > start_threshold)
          /\ rep_completed' => current_stage' = "DOWN"
          /\ (/\ frame_angle' # NoAngle
              /\ frame_angle' < up_threshold
              /\ ~(frame_angle' > start_threshold))
             => current_stage' = "UP"
          /\ (/\ frame_angle' # NoAngle
              /\ frame_angle' > start_threshold
              /\ current_stage \in {"START", "DOWN"})
             => (current_stage' = "START" /\ ~rep_completed')]_vars

\* an extension-first boundary: UP before the call, DOWN after it
C5_Witness ==
    /\ ExtensionFirst /\ op = "process" /\ rep_completed
    /\ previous_stage = "UP" /\ current_stage = "DOWN"

\* C6: flexion-first guard.  As long as no frame had an angle below the down
\* threshold, the phase is never DOWN and no call has reported a boundary;
\* and every frame with an angle above the start threshold that arrives while
\* the phase is not DOWN sets the phase to START.
C6_FlexionGuard ==
    /\ [](FlexionFirst /\ ~below_down_seen =>
             current_stage # "DOWN" /\ ~rep_completed)
    /\ [][(/\ PoseCall /\ FlexionFirst
           /\ frame_angle' > start_threshold
           /\ current_stage # "DOWN")
          => current_stage' = "START"]_vars

\* poor depth: the angle never went below the down threshold and the frame
\* just processed extends beyond the start threshold
C6_Witness ==
    /\ FlexionFirst /\ ~below_down_seen
    /\ op = "process" /\ frame_angle # NoAngle
    /\ frame_angle > start_threshold
    /\ form_score = 95

\* C7: forgiving re-entry.  In the flexion-first machine a frame whose angle
\* is below the down threshold (and not above the start threshold) sets the
\* phase to DOWN from START, DOWN and UP alike, and reports no repetition.
C7_ForgivingReentry ==
    [][(/\ PoseCall /\ FlexionFirst
        /\ frame_angle' < down_threshold
        /\ ~(frame_angle' > start_threshold))
       => (current_stage' = "DOWN" /\ ~rep_completed')]_vars

\* DOWN re-entered straight from UP
C7_Witness ==
    /\ FlexionFirst /\ op = "process" /\ frame_angle # NoAngle
    /\ previous_stage = "UP" /\ current_stage = "DOWN"

\* C8: the same frame fed any number of times in a row, from any reachable
\* state of either machine, increments reps at most once in total.
C8_RepeatedFrames == run_incs <= 1

\* a run of at least two identical frames, the first of which was counted
C8_Witness ==
    /\ op = "process" /\ frame_angle # NoAngle
    /\ run_incs = 1 /\ ~rep_completed

\* C9: one process() call changes reps by 0 or by +1.
C9_OneRepPerCall ==
    [][ProcessCall => (reps' = reps \/ reps' = reps + 1)]_vars

\* the second repetition has just been counted
C9_Witness ==
    op = "process" /\ rep_completed /\ reps >= 2 /\ result[1] = reps

\* C10: reps is a natural number that no process() call lowers; only reset()
\* lowers it, and to 0.
C10_RepsMonotone ==
    /\ [](reps \in Nat)
    /\ [][/\ ProcessCall => reps' >= reps
          /\ reps' < reps => (op' = "reset" /\ reps' = 0)]_vars

\* reset() has taken a positive count back to 0
C10_Witness ==
    op = "reset" /\ reps = 0 /\ result # NoResult /\ result[1] > 0

\* C11: reset() called in any reachable state leaves reps = 0, phase START,
\* stored form score 100 and empty feedback and voice strings; a second
\* reset() right after the first changes nothing.
C11_Reset ==
    /\ [](op = "reset" =>
             /\ reps = 0
             /\ current_stage = "START"
             /\ form_score = 100
             /\ feedback = ""
             /\ voice_message = "")
    /\ [][(op = "reset" /\ op' = "reset") =>
             UNCHANGED <<current_stage, reps, feedback, voice_message, form_score>>]_vars

\* reset() called on an engine that had counted a repetition and whose last
\* frame left a phase other than START and a stored score other than 100
C11_Witness ==
    /\ op = "reset" /\ result # NoResult
    /\ result[1] > 0 /\ result[2] # "START" /\ result[5] # 100 /\ result[3] # ""

\* C12: neither process() nor reset() changes the exercise definition, the
\* landmark triple, the thresholds (start, down, up, feedback), the perfect
\* range or the gate value, which is 85 throughout; whenever one of them
\* changes, exercise_engine is bound to another engine than before.
C12_DefinitionImmutable ==
    /\ [][op' \in {"process", "reset"} =>
             UNCHANGED <<engine, exercise_config, landmark1, landmark2, landmark3,
                         start_threshold, down_threshold, up_threshold,
                         feedback_threshold, perfect_ranges,
                         perfect_form_threshold>>]_vars
    /\ [](perfect_form_threshold = 85)
    /\ [][<<exercise_config, landmark1, landmark2, landmark3, start_threshold,
             down_threshold, up_threshold, feedback_threshold, perfect_ranges,
             perfect_form_threshold>>'
           # <<exercise_config, landmark1, landmark2, landmark3, start_threshold,
               down_threshold, up_threshold, feedback_threshold, perfect_ranges,
               perfect_form_threshold>>
           => engine' # engine]_vars

\* the exercise was switched from squats to bicep curls, and process() has
\* counted a repetition on the engine made for the switch
C12_Witness ==
    /\ engine > 1 /\ exercise_config.name = NAME_BicepCurls /\ landmark1 = 11
    /\ op = "process" /\ rep_completed /\ reps = 1

\* C13: a process() call with an empty landmark list returns (reps, phase,
\* "No pose detected", "", 0), and a call with a list of (id, x, y) entries in
\* which one of the three configured joints is absent returns (reps, phase,
\* "Required landmarks not detected", "", 0); both leave reps, the phase, the
\* stored form score and the stored feedback and voice strings unchanged.
C13_MissingInput ==
    [][ListCall =>
         /\ Len(landmarks'.list) = 0 =>
              /\ result' = <<reps, current_stage, "No pose detected", "", 0>>
              /\ UNCHANGED <<reps, current_stage, form_score, feedback, voice_message>>
         /\ (/\ Len(landmarks'.list) > 0
             /\ ThreeFields(landmarks'.list)
             /\ JointAbsent(landmarks'.list)) =>
              /\ result' = <<reps, current_stage, "Required landmarks not detected", "", 0>>
              /\ UNCHANGED <<reps, current_stage, form_score, feedback, voice_message>>]_vars

\* a frame with two of the three joints was fed to an engine that had counted
\* a repetition and held a score other than 100 and a feedback text
C13_Witness ==
    /\ op = "process" /\ landmarks.kind = "list" /\ Len(landmarks.list) > 0
    /\ ThreeFields(landmarks.list) /\ JointAbsent(landmarks.list)
    /\ reps > 0 /\ current_stage # "START" /\ form_score # 100 /\ feedback # ""

\* C14: a frame whose geometry is degenerate (a leg vector of length zero) or
\* whose coordinates are malformed is reported through the feedback text
\* "Error calculating angle" and leaves the phase, reps and the stored form
\* score unchanged.
C14_ComputationErrors ==
    [][(/\ ListCall
        /\ \/ ZeroLengthLeg(landmarks'.list)
           \/ MalformedCoordinates(landmarks'.list))
       => (/\ result' # NoResult
           /\ result'[3] = "Error calculating angle"
           /\ UNCHANGED <<current_stage, reps, form_score>>)]_vars

\* C15: every process() call, whatever its landmarks argument (empty list,
\* None, entries with too few fields, coordinates that are not numbers,
\* missing joints), returns a 5-tuple and raises nothing to its caller.
C15_NoErrorEscapes ==
    [][ProcessCall => (raised' = "" /\ result' # NoResult /\ Len(result') = 5)]_vars

\* C16: the constructor fails for a missing or malformed exercise definition
\* (file absent, landmarks naming neither hip/knee/ankle nor
\* shoulder/elbow/wrist, no feedback list): whenever it returns an engine,
\* the landmark triple of that engine is set and its definition has a
\* feedback list.
C16_ConfigurationErrorsFatal ==
    (op = "construct" /\ raised = "") =>
        /\ landmark1 # Unset /\ landmark2 # Unset /\ landmark3 # Unset
        /\ "feedback" \in DOMAIN exercise_config

\* C17: within one process() call the form score is computed from the phase
\* held before the transition, the perfect-form gate uses that score, and the
\* feedback is generated from the phase held after the transition together
\* with that same score.
C17_FrameOrdering ==
    [][PoseCall =>
         /\ form_score' = calculate_form_score(exercise_config, current_stage, frame_angle')
         /\ result'[5] = form_score'
         /\ reps' = IF rep_completed' /\ form_score' >= 85 THEN reps + 1 ELSE reps
         /\ <<feedback', voice_message'>> =
              generate_feedback(exercise_config, frame_angle', current_stage', form_score')
         /\ <<result'[3], result'[4]>> = <<feedback', voice_message'>>]_vars

\* a boundary frame whose score in the phase before the transition is below
\* the gate and in the phase after it is not: the repetition was not counted
\* and the feedback is that of the low score
C17_Witness ==
    /\ op = "process" /\ frame_angle # NoAngle /\ rep_completed
    /\ previous_stage # current_stage
    /\ form_score = calculate_form_score(exercise_config, previous_stage, frame_angle)
    /\ form_score < 85
    /\ calculate_form_score(exercise_config, current_stage, frame_angle) >= 85
    /\ feedback = "Poor Form!"

\* C18: form-score bands, edges included, first match wins.  Squat in phase
\* DOWN: 70-90 gives 100, 65-95 gives 90, 60-100 gives 75, 50-110 gives 60,
\* else 40.  Push-up in phase DOWN: 60-90 gives 100, 55-95 gives 90, 50-100
\* gives 75, else 60.  Bicep curl in phase UP: 30-50 gives 100, 25-55 gives
\* 90, 20-60 gives 75, else 60.
C18_ScoreBands ==
    [][PoseCall =>
         /\ (exercise_config.name = NAME_Squats /\ current_stage = "DOWN") =>
              form_score' = FirstBand(<<<<70, 90, 100>>, <<65, 95, 90>>,
                                        <<60, 100, 75>>, <<50, 110, 60>>>>,
                                      40, frame_angle')
         /\ (exercise_config.name = NAME_Pushups /\ current_stage = "DOWN") =>
              form_score' = FirstBand(<<<<60, 90, 100>>, <<55, 95, 90>>,
                                        <<50, 100, 75>>>>,
                                      60, frame_angle')
         /\ (exercise_config.name = NAME_BicepCurls /\ current_stage = "UP") =>
              form_score' = FirstBand(<<<<30, 50, 100>>, <<25, 55, 90>>,
                                        <<20, 60, 75>>>>,
                                      60, frame_angle')]_vars

\* a squat frame on the upper edge of the second band, received in phase DOWN
C18_Witness ==
    /\ exercise_config.name = NAME_Squats /\ op = "process"
    /\ previous_stage = "DOWN" /\ frame_angle = 95 /\ form_score = 90

\* C19: outside the critical phase (DOWN for squat and push-up, UP for bicep
\* curl) the score is 95 for every angle; for an exercise whose name matches
\* none of squat, push and bicep it is 80 in every phase and for every angle.
C19_UncriticalScores ==
    [][PoseCall =>
         /\ (/\ exercise_config.name \in {NAME_Squats, NAME_Pushups}
             /\ current_stage # "DOWN") => form_score' = 95
         /\ (exercise_config.name = NAME_BicepCurls /\ current_stage # "UP") =>
              form_score' = 95
         /\ exercise_config.name = NAME_Lunges => form_score' = 80]_vars

\* an exercise of another name scored 80 on a frame received in phase DOWN
C19_Witness ==
    /\ exercise_config.name = NAME_Lunges /\ op = "process"
    /\ frame_angle # NoAngle /\ previous_stage = "DOWN" /\ form_score = 80

\* C20: whenever the score of the frame is below 85 the feedback is
\* "Poor Form!" (score below 60) or "Improve Form" (score from 60 to below
\* 85), whatever the declarative rules of the definition say.
C20_LowScoreFeedback ==
    [][PoseCall =>
         /\ form_score' < 60 => (feedback' = "Poor Form!" /\ result'[3] = "Poor Form!")
         /\ (60 <= form_score' /\ form_score' < 85) =>
              (feedback' = "Improve Form" /\ result'[3] = "Improve Form")]_vars

\* a squat frame below 70 degrees, for which the rule "Too deep" holds, scored 60
C20_Witness ==
    /\ exercise_config.name = NAME_Squats /\ op = "process"
    /\ frame_angle # NoAngle /\ frame_angle < 70
    /\ \E i \in 1..Len(exercise_config.feedback) :
          exercise_config.feedback[i].condition = COND_lt_70
    /\ form_score = 60 /\ feedback = "Improve Form"

\* C21: when the score is at least 85, the first feedback rule of the
\* definition whose condition holds supplies the display and voice pair; a
\* condition `angle > T` holds iff angle > T, `angle < T` iff angle < T, and a
\* conjunction with `state == "P"` iff the comparison holds and the phase
\* after the transition is P.
C21_RulePriority ==
    [][(/\ PoseCall /\ form_score' >= 85
        /\ AskedRules(exercise_config.feedback, frame_angle', current_stage') # {})
       => LET hits == AskedRules(exercise_config.feedback, frame_angle', current_stage')
              rule == exercise_config.feedback[CHOOSE i \in hits : \A j \in hits : i <= j]
          IN  /\ feedback' = rule.message
              /\ voice_message' = IF rule.voice = NoVoice THEN rule.message
                                                            ELSE rule.voice]_vars

\* C22: when the score is at least 85 and no feedback rule's condition holds,
\* the display feedback is "Perfect Form!" for a score of 95 or more and
\* "Good Form" for a score from 85 to below 95.
C22_PositiveFeedback ==
    [][(/\ PoseCall /\ form_score' >= 85
        /\ AskedRules(exercise_config.feedback, frame_angle', current_stage') = {})
       => (/\ feedback' = IF form_score' >= 95 THEN "Perfect Form!" ELSE "Good Form"
           /\ result'[3] = feedback')]_vars

\* a frame scored 90 for which no rule holds
C22_Witness ==
    /\ op = "process" /\ frame_angle # NoAngle /\ form_score = 90
    /\ AskedRules(exercise_config.feedback, frame_angle, current_stage) = {}
    /\ feedback = "Good Form"

\* C23: with a voice channel attached, each process() call that detects a
\* repetition boundary emits exactly one notification: a perfect-rep
\* announcement when the repetition is counted, a form warning when it is
\* discarded; a call that detects no boundary emits none and counts nothing,
\* so a discarded repetition is never counted on a later frame without a new
\* boundary.
C23_BoundaryNotification ==
    [][ProcessCall =>
         /\ (voice_attached /\ rep_completed') =>
              /\ Len(Notifications(spoken')) = 1
              /\ reps' = reps + 1 => Notifications(spoken')[1].text \in PerfectRepTexts
              /\ reps' = reps => Notifications(spoken')[1].text \in FormWarningTexts
              /\ reps' \in {reps, reps + 1}
         /\ ~rep_completed' => (Notifications(spoken') = << >> /\ reps' = reps)]_vars

\* a boundary was discarded with a form warning on an engine that had counted
\* one repetition before
C23_Witness ==
    /\ voice_attached /\ op = "process" /\ rep_completed /\ form_score < 85
    /\ reps = 1
    /\ Len(Notifications(spoken)) = 1
    /\ Notifications(spoken)[1].text \in FormWarningTexts

\* C24: for each optional parameter that the exercise definition does not
\* give, the constructed engine uses start 160, down 90, up 50, feedback 100
\* and the perfect range (70, 90); a parameter that is given is used as it is.
C24_Defaults ==
    (op = "construct" /\ raised = "") =>
        LET params == exercise_config.parameters
            given(key) == key \in DOMAIN params
        IN  /\ start_threshold =
                 IF given("angle_threshold_start") THEN params["angle_threshold_start"] ELSE 160
            /\ down_threshold =
                 IF given("angle_threshold_down") THEN params["angle_threshold_down"] ELSE 90
            /\ up_threshold =
                 IF given("angle_threshold_up") THEN params["angle_threshold_up"] ELSE 50
            /\ feedback_threshold =
                 IF given("feedback_threshold") THEN params["feedback_threshold"] ELSE 100
            /\ perfect_ranges[1] =
                 IF given("perfect_range_min") THEN params["perfect_range_min"] ELSE 70
            /\ perfect_ranges[2] =
                 IF given("perfect_range_max") THEN params["perfect_range_max"] ELSE 90

\* an engine constructed from a definition that gives the feedback threshold
\* and the perfect range but none of the angle thresholds
C24_Witness ==
    /\ op = "construct" /\ raised = ""
    /\ DOMAIN exercise_config.parameters =
         {"feedback_threshold", "perfect_range_min", "perfect_range_max"}
    /\ start_threshold = 160 /\ down_threshold = 90 /\ up_threshold = 50
    /\ feedback_threshold = 120 /\ perfect_ranges = <<60, 100>>

\* Both legs of the angle have a length
BothLegs(args) == args[1] # args[2] /\ args[3] # args[2]

\* C25: for three points with both leg vectors nonzero, calculate_angle
\* returns a value between 0 and 180 inclusive, and the same value when the
\* first and the last point are exchanged.
C25_RangeAndSymmetry ==
    (op = "calculate_angle" /\ BothLegs(angle_args)) =>
        /\ angle_returned.raised = ""
        /\ angle_returned.angle >= 0
        /\ angle_returned.angle <= MaxAngle
        /\ angle_returned =
             calculate_angle(angle_args[3], angle_args[2], angle_args[1])

C25_Witness ==
    /\ op = "calculate_angle"
    /\ BothLegs(angle_args)
    /\ angle_args[1] # angle_args[3]
    /\ angle_returned.angle = 45

\* C26: when the first or the last point coincides with the vertex,
\* calculate_angle returns 0 and raises nothing, a division by zero included.
C26_ZeroLengthLeg ==
    (op = "calculate_angle" /\ ~BothLegs(angle_args)) =>
        angle_returned = [raised |-> "", angle |-> 0]

C26_Witness ==
    /\ op = "calculate_angle"
    /\ angle_args[1] = angle_args[2]
    /\ angle_args[3] # angle_args[2]
    /\ angle_returned = [raised |-> "", angle |-> 0]

\* C27: after any sequence of process() and reset() calls the phase is one of
\* START, DOWN and UP and the stored form score is an integer from 0 to 100;
\* a fresh engine has phase START, repetition count 0 and score 100.
C27_StateRanges ==
    /\ current_stage \in {"START", "DOWN", "UP"}
    /\ form_score \in 0..100
    /\ op = "init" => (current_stage = "START" /\ reps = 0 /\ form_score = 100)

C27_Witness ==
    /\ op = "process"
    /\ current_stage = "UP"
    /\ form_score = 40

\* Where a thread stands that has begun a process() call, or any mutating
\* call, on the engine and has not finished it
InProcess == {"machine", "gate", "feedback"}
InEngineCall == InProcess \cup {"reset_texts"}

\* C28: at no time do two threads of the application mutate the engine's
\* state concurrently: a frame loop's process() overlaps neither a /reset
\* handler's reset() nor another frame loop's process().
C28_SingleWriter ==
    \A t \in Threads, u \in Threads :
        (t # u /\ pc[t] \in InProcess) => pc[u] \notin InEngineCall

\* The engine runs on the default thresholds
DefaultThresholds ==
    start_threshold = 160 /\ down_threshold = 90 /\ up_threshold = 50

\* The score the boundary of an exercise of this name has on the default
\* thresholds
BoundaryScore(name) ==
    IF name_has[name, STR_squat] THEN 40
    ELSE IF name_has[name, STR_push] THEN 60
    ELSE IF name_has[name, STR_bicep] THEN 60
    ELSE 80

\* The name holds 'bicep' together with 'squat' or 'push'
TwoFamilies(name) ==
    name_has[name, STR_bicep] /\ (name_has[name, STR_squat] \/ name_has[name, STR_push])

\* On the default thresholds no repetition has been counted, and a process()
\* call on a boundary frame has the low score of its exercise and a
\* form-improvement message
NeverCounted ==
    /\ reps' = 0
    /\ (PoseCall /\ rep_completed') =>
          /\ form_score' = BoundaryScore(exercise_config.name)
          /\ form_score' < perfect_form_threshold
          /\ feedback' \in {"Poor Form!", "Improve Form"}

C30_Separation ==
    [][(PoseCall /\ rep_completed') =>
          /\ since_boundary \in {"none", "reentered"}
          /\ ~(op = "process" /\ rep_completed)]_vars

C30_Witness ==
    /\ op = "process"
    /\ rep_completed
    /\ reps = 2
    /\ since_boundary = "waiting"

\* The angle lies between the threshold of the critical phase and the start
\* threshold, both included
DeadBand(a) ==
    /\ a <= start_threshold
    /\ IF ExtensionFirst THEN a >= up_threshold ELSE a >= down_threshold

\* C31: a valid frame whose angle lies in the dead band (down threshold to
\* start threshold, up threshold to start threshold for the bicep curl) leaves
\* the phase and the repetition count as they were and reports no boundary;
\* the thresholds stay, only the score and the feedback strings may change.
C31_DeadBand ==
    [][(PoseCall /\ DeadBand(frame_angle')) =>
          /\ current_stage' = current_stage
          /\ reps' = reps
          /\ ~rep_completed'
          /\ result'[1] = reps /\ result'[2] = current_stage
          /\ UNCHANGED config_vars]_vars

C31_Witness ==
    /\ op = "process"
    /\ frame_angle # NoAngle
    /\ DeadBand(frame_angle)
    /\ frame_angle = start_threshold
    /\ current_stage = "DOWN"
    /\ FlexionFirst
    /\ form_score = 40

\* The pairs (feedback, voice) of the branches of generate_feedback
ImprovementPairs ==
    { <<"Poor Form!", "Focus on your form! Slow down and control the movement!">>,
      <<"Improve Form", "Almost there! Adjust your form slightly for perfect reps!">> }

PositivePairs ==
    { <<"Perfect Form!", "Excellent technique! Keep it up!">>,
      <<"Good Form", "Great form! This rep will count!">> }

PhaseDefaultPairs ==
    { <<"Ready", "Ready for next rep">>, <<"Good depth!", "">>, <<"Great rep!", "">>,
      <<"", "">> }

RulePairs(config) ==
    { <<config.feedback[i].message,
        IF config.feedback[i].voice = NoVoice
        THEN config.feedback[i].message ELSE config.feedback[i].voice>> :
        i \in DOMAIN config.feedback }

\* C32: every process() call that passes input validation returns a pair of
\* the form-improvement branch, of a declarative rule or of the score-based
\* positive branch, never a phase-based default ("Ready", "Good depth!",
\* "Great rep!") or the empty pair; its voice text is empty only when a rule
\* supplies an empty one.
C32_NoPhaseDefault ==
    (op = "process" /\ frame_angle # NoAngle) =>
        LET pair == <<feedback, voice_message>>
        IN  /\ result[3] = feedback /\ result[4] = voice_message
            /\ pair \in ImprovementPairs \cup RulePairs(exercise_config)
                         \cup PositivePairs
            /\ pair \notin PhaseDefaultPairs
            /\ voice_message = "" => pair \in RulePairs(exercise_config)

C32_Witness ==
    /\ op = "process"
    /\ frame_angle # NoAngle
    /\ form_score = 90
    /\ feedback = "Good Form"
    /\ current_stage = "UP"

\* What /stats serves of the five values process() returns
Stats ==
    <<current_reps, app_current_stage, current_feedback, current_voice_message,
      current_form_score>>

\* Thread t finishes the iteration of generate_frames that processed a frame
Published(t) == pc[t] = "publish" /\ pc'[t] = "camera"

\* C33: after generate_frames has processed a frame with landmarks, each value
\* served by /stats (reps, stage, feedback, voice_message, form_score) equals
\* the corresponding element of the tuple that process() call returned.
C33_StatsMirror ==
    [][\A t \in Threads : Published(t) => Stats' = frame_local[t].returned]_vars

\* C34: once the /reset handler has finished, under any interleaving with a
\* running generate_frames iteration, /stats never again reports a repetition
\* count or stage taken from before the reset: no tuple that process()
\* returned before the handler finished is published after it.
C34_ResetNotUndone ==
    [][\A t \in Threads : Published(t) => ~frame_local[t].stale]_vars

\* The step is a speak() call / the worker taking a message from the queue
SpeakCall == op' = "speak"
WorkerGet == op' = "worker_get"

\* The queue after the call's message was put on it
Put(call) == Append(feedback_queue, Message(call.text, call.priority, now))

\* C35: speak() puts a priority message on the queue whatever the cooldown; a
\* non-priority message is put on the queue only if at least
\* feedback_cooldown seconds have passed since the last message finished
\* being spoken, and is dropped with the queue unchanged otherwise.
C35_SpeakCooldown ==
    [][SpeakCall =>
          IF speak_call'.priority
             \/ last_finished = Never
             \/ now - last_finished >= feedback_cooldown
          THEN feedback_queue' = Put(speak_call')
          ELSE feedback_queue' = feedback_queue]_vars

C35_Witness ==
    /\ op = "speak"
    /\ ~speak_call.priority
    /\ speak_call.time = now
    /\ last_finished # Never
    /\ now - last_finished < feedback_cooldown
    /\ feedback_queue = << >>

\* C36: two non-priority messages are never spoken less than
\* feedback_cooldown seconds apart, whatever the speak() calls and the
\* worker's pace: the worker begins a non-priority message no sooner than
\* feedback_cooldown seconds after it began the one before.
C36_Cooldown ==
    [][(WorkerGet /\ worker' = "say" /\ ~saying'.priority
          /\ last_plain_start # Never) =>
             now - last_plain_start >= feedback_cooldown]_vars

C38_SpeakingFlag == is_speaking => worker = "say"

=============================================================================
